---- MODULE Spec2Model ----
(***************************************************************************)
(* State-machine model of the dispatch and failover core of ccx:           *)
(*   - the per-(baseURL, apiKey) metrics engine                            *)
(*     (backend-go/internal/metrics/channel_metrics.go),                   *)
(*   - the in-channel failover executor TryUpstreamWithAllKeys,            *)
(*   - the multi-channel wrapper HandleMultiChannelFailover.               *)
(* Time is counted in minutes.                                             *)
(***************************************************************************)
EXTENDS Integers, Sequences, FiniteSets, TLC

(***************************************************************************)
(* Bounds of the model.                                                    *)
(***************************************************************************)
MaxRequests == 3
MaxTicks == 2
MaxCircuitRequests == 7
MaxCircuitTicks == 1
MaxSweepRequests == 6
MaxSweepTicks == 1
MaxServed == 1

(***************************************************************************)
(* Program constants.                                                      *)
(***************************************************************************)
DefaultWindowSize == 10
MinWindowSize == 3
ThresholdNum == 1
ThresholdDen == 2
RecoveryMinutes == 15
RetentionMinutes == 1440

NoTime == 0 - 1

BaseURLs == {"u1", "u2"}
APIKeys == {"k1", "k2"}

VARIABLES
    now,            \* wall clock, time.Now()
    ticks,          \* number of clock advances so far (bounds the clock)
    windowSize,     \* MetricsManager.windowSize
    keyMetrics,     \* MetricsManager.keyMetrics: metricsKey -> KeyMetrics
    nextRequestID,  \* MetricsManager.nextRequestID
    store,          \* PersistenceStore: metricsKey -> records accepted
    inflight,       \* reservations held by callers: {[rid, u, k]}
    pc,             \* position of the request handler
    req,            \* the client request being served
    ctxDone,        \* c.Request.Context() is cancelled: the client gave up
    mc,             \* locals of HandleMultiChannelFailover
    ex,             \* locals of TryUpstreamWithAllKeys
    traceAffinity,  \* scheduler.traceAffinity: compositeKey -> channelIndex
    failedKeysCache,\* ConfigManager.failedKeysCache, oldest failure first
    malformedURLs,  \* configured base URLs that do not parse as a URL
    clientResponse, \* what has been written to the client
    lastObserved,   \* last failover-classified upstream response of the request
    served,         \* number of client requests started
    chatUpstream,   \* Config.ChatUpstream: the configured channels, in index order
    selection,      \* the last call of SelectChannel: its inputs and its result
    affinityFor,    \* compositeKey -> Name of the channel the affinity was set for
    sq,             \* SQLiteStore: its fields
    go,             \* SQLiteStore: the goroutines working on it and their locals
    doomed,         \* ids of the records a returned delete call had to remove
    stream          \* streamClaudeToChat: the upstream body and the locals

storeVars == <<sq, go, doomed>>
metricsVars == <<windowSize, keyMetrics, nextRequestID, store, storeVars, stream>>
handlerVars == <<pc, req, ctxDone, mc, ex, traceAffinity, failedKeysCache,
                 malformedURLs, clientResponse, lastObserved, served>>
schedulerVars == <<chatUpstream, selection, affinityFor>>
vars == <<now, ticks, windowSize, keyMetrics, nextRequestID, store, inflight,
          pc, req, ctxDone, mc, ex, traceAffinity, failedKeysCache,
          malformedURLs, clientResponse, lastObserved, served,
          chatUpstream, selection, affinityFor, sq, go, doomed, stream>>

(***************************************************************************)
(* Helpers on sequences and maps.                                          *)
(***************************************************************************)
Max(a, b) == IF a >= b THEN a ELSE b

RemoveAt(s, i) == SubSeq(s, 1, i - 1) \o SubSeq(s, i + 1, Len(s))

EmptyMap == [x \in {} |-> 0]

CountFalse(s) == Cardinality({i \in DOMAIN s : ~s[i]})

(***************************************************************************)
(* Metrics identity and rows.                                              *)
(***************************************************************************)
\* generateMetricsKey digests the string baseURL + "|" + apiKey; the digest
\* is taken as collision-free, so the identity is the joined string.
generateMetricsKey(baseURL, apiKey) == baseURL \o "|" \o apiKey

\* A fresh row as getOrCreateKey builds it.
NewKeyMetrics(baseURL, apiKey) ==
    [ MetricsKey          |-> generateMetricsKey(baseURL, apiKey),
      RequestCount        |-> 0,
      SuccessCount        |-> 0,
      FailureCount        |-> 0,
      ConsecutiveFailures |-> 0,
      ActiveRequests      |-> 0,
      LastSuccessAt       |-> NoTime,
      LastFailureAt       |-> NoTime,
      CircuitBrokenAt     |-> NoTime,
      recentResults       |-> <<>>,
      requestHistory      |-> <<>>,
      pendingHistoryIdx   |-> EmptyMap ]

\* The row for (baseURL, apiKey) after getOrCreateKey, and the map holding it.
getOrCreateKey(km, baseURL, apiKey) ==
    LET mk == generateMetricsKey(baseURL, apiKey) IN
    IF mk \in DOMAIN km THEN km
    ELSE [x \in DOMAIN km \cup {mk} |->
            IF x = mk THEN NewKeyMetrics(baseURL, apiKey) ELSE km[x]]

\* A RequestRecord.  owner is an auxiliary field no operation reads: the
\* requestID whose Reserve appended the record, 0 for a record appended by
\* recordSuccessWithUsageLocked / recordFailureLocked.
RequestRecord(timestamp, success, owner) ==
    [Timestamp |-> timestamp, Success |-> success, owner |-> owner]

\* MetricsManager.apiType: the interface this manager keeps metrics for.
apiType == "Chat"

PersistentRecord(metricsKey, timestamp, success) ==
    [MetricsKey |-> metricsKey, Timestamp |-> timestamp, Success |-> success,
     APIType |-> apiType]

\* Base URLs and keys that hold the separator of the joined string.
IdentityBaseURLs == {"u", "u|x"}
IdentityAPIKeys == {"k", "x|k"}

MetricsKeys ==
    {generateMetricsKey(u, k) : u \in BaseURLs, k \in APIKeys}
        \cup {generateMetricsKey(u, k) : u \in IdentityBaseURLs, k \in IdentityAPIKeys}

\* PersistenceStore.AddRecord: the store keeps, per metrics identity, the
\* records in the order they were accepted.
AddRecord(st, record) ==
    [st EXCEPT ![record.MetricsKey] = Append(@, record)]

EmptyStore == [mk \in MetricsKeys |-> <<>>]

(***************************************************************************)
(* Sliding window and circuit evaluation.                                  *)
(***************************************************************************)
appendToWindowKey(metrics, success) ==
    LET w == Append(metrics.recentResults, success) IN
    [metrics EXCEPT !.recentResults =
        IF Len(w) > windowSize THEN Tail(w) ELSE w]

\* Circuit evaluation that waits for a full window.
minRequests_FullWindow == Max(3, windowSize)

minRequests == Max(3, windowSize \div 2)

\* failures / len >= failureThreshold, with failureThreshold = 1/2
FailureRateAtLeastThreshold(results) ==
    /\ Len(results) > 0
    /\ CountFalse(results) * ThresholdDen >= ThresholdNum * Len(results)

isKeyCircuitBroken(metrics) ==
    IF Len(metrics.recentResults) < minRequests THEN FALSE
    ELSE FailureRateAtLeastThreshold(metrics.recentResults)

ShouldSuspendKey(baseURL, apiKey) ==
    LET mk == generateMetricsKey(baseURL, apiKey) IN
    IF mk \notin DOMAIN keyMetrics THEN FALSE
    ELSE IF Len(keyMetrics[mk].recentResults) < minRequests THEN FALSE
    ELSE FailureRateAtLeastThreshold(keyMetrics[mk].recentResults)

(***************************************************************************)
(* 24h eviction of the history with the rebase of the pending indices.     *)
(* Indices are 0-based as in the code; requestHistory[i + 1] is slot i.    *)
(***************************************************************************)
\* Index of the first record younger than the cutoff, -1 if there is none.
FirstFresh(history, cutoff) ==
    LET fresh == {i \in 0 .. Len(history) - 1 : history[i + 1].Timestamp > cutoff} IN
    IF fresh = {} THEN 0 - 1
    ELSE CHOOSE i \in fresh : \A j \in fresh : i <= j

\* Eviction that drops the pendings of evicted slots but leaves the indices
\* of the surviving ones as they were.
cleanupHistoryLocked_NoRebase(metrics, t) ==
    IF Len(metrics.requestHistory) = 0 THEN metrics
    ELSE
      LET cutoff   == t - RetentionMinutes
          newStart == FirstFresh(metrics.requestHistory, cutoff)
          pend     == metrics.pendingHistoryIdx
      IN
      IF newStart > 0 THEN
          [metrics EXCEPT
              !.requestHistory = SubSeq(metrics.requestHistory, newStart + 1,
                                        Len(metrics.requestHistory)),
              !.pendingHistoryIdx =
                  [id \in {x \in DOMAIN pend : pend[x] >= newStart} |-> pend[id]]]
      ELSE IF newStart = 0 - 1 THEN
          [metrics EXCEPT !.requestHistory = <<>>,
                          !.pendingHistoryIdx = EmptyMap]
      ELSE metrics

cleanupHistoryLocked(metrics, t) ==
    IF Len(metrics.requestHistory) = 0 THEN metrics
    ELSE
      LET cutoff   == t - RetentionMinutes
          newStart == FirstFresh(metrics.requestHistory, cutoff)
          pend     == metrics.pendingHistoryIdx
      IN
      IF newStart > 0 THEN
          [metrics EXCEPT
              !.requestHistory = SubSeq(metrics.requestHistory, newStart + 1,
                                        Len(metrics.requestHistory)),
              !.pendingHistoryIdx =
                  [id \in {x \in DOMAIN pend : pend[x] >= newStart} |->
                      pend[id] - newStart]]
      ELSE IF newStart = 0 - 1 THEN
          [metrics EXCEPT !.requestHistory = <<>>,
                          !.pendingHistoryIdx = EmptyMap]
      ELSE metrics

appendToHistoryKeyWithUsage(metrics, timestamp, success) ==
    cleanupHistoryLocked(
        [metrics EXCEPT !.requestHistory =
            Append(metrics.requestHistory, RequestRecord(timestamp, success, 0))],
        now)

(***************************************************************************)
(* The MetricsManager as a value: every operation of the engine maps the   *)
(* manager before the call to the manager after it (the calls hold the     *)
(* manager's lock).                                                        *)
(***************************************************************************)
Manager ==
    [keyMetrics |-> keyMetrics, nextRequestID |-> nextRequestID, store |-> store]

\* The manager after a step is m.
Becomes(m) ==
    /\ keyMetrics' = m.keyMetrics
    /\ nextRequestID' = m.nextRequestID
    /\ store' = m.store
    /\ UNCHANGED <<windowSize, storeVars, stream>>

(***************************************************************************)
(* The SQLite store at rest.  The engine's operations hand their records   *)
(* to AddRecord; the goroutines of the store are followed in their own     *)
(* specifications.                                                         *)
(***************************************************************************)
DefaultBatchSize == 2

\* NewSQLiteStore: an empty buffer and table, flushLoop started.
SQLiteStore(batchSize) ==
    [ batchSize    |-> batchSize,
      writeBuffer  |-> <<>>,
      rows         |-> <<>>,      \* the table request_records
      closed       |-> FALSE,
      stopCh       |-> FALSE,     \* close(stopCh) has been called
      dbClosed     |-> FALSE,     \* db.Close() has been called
      flushMu      |-> "free",    \* the goroutine holding flushMu
      flushing     |-> FALSE,
      asyncFlushWg |-> 0,
      calls        |-> 0 ]        \* number of AddRecord calls so far

\* Positions of the goroutines; records is the local of flush(), which
\* runs under flushMu.
IdleGoroutines ==
    [ adder   |-> "idle",
      worker  |-> "none",
      loop    |-> "select",
      deleter |-> "idle",
      closer  |-> "idle",
      records |-> <<>> ]

\* No response is being translated.
NoStream ==
    [pc |-> "none", lines |-> <<>>, remainder |-> <<>>, written |-> <<>>,
     doneSent |-> FALSE]

InitSQLiteStore(batchSize) ==
    /\ sq = SQLiteStore(batchSize)
    /\ go = IdleGoroutines
    /\ doomed = {}

(***************************************************************************)
(* Recording without a reservation (also the degraded path of Finalize).   *)
(***************************************************************************)
recordSuccessWithUsageLocked(m, baseURL, apiKey, t) ==
    LET mk  == generateMetricsKey(baseURL, apiKey)
        km0 == getOrCreateKey(m.keyMetrics, baseURL, apiKey)
        m0  == km0[mk]
        m1  == [m0 EXCEPT !.RequestCount = @ + 1,
                          !.SuccessCount = @ + 1,
                          !.ConsecutiveFailures = 0,
                          !.LastSuccessAt = t,
                          !.CircuitBrokenAt = NoTime]
        m2  == appendToWindowKey(m1, TRUE)
        m3  == appendToHistoryKeyWithUsage(m2, t, TRUE)
    IN
    [m EXCEPT !.keyMetrics = [km0 EXCEPT ![mk] = m3],
              !.store = AddRecord(@, PersistentRecord(mk, t, TRUE))]

recordFailureLocked(m, baseURL, apiKey, t) ==
    LET mk  == generateMetricsKey(baseURL, apiKey)
        km0 == getOrCreateKey(m.keyMetrics, baseURL, apiKey)
        m0  == km0[mk]
        m1  == [m0 EXCEPT !.RequestCount = @ + 1,
                          !.FailureCount = @ + 1,
                          !.ConsecutiveFailures = @ + 1,
                          !.LastFailureAt = t]
        m2  == appendToWindowKey(m1, FALSE)
        m3  == IF m2.CircuitBrokenAt = NoTime /\ isKeyCircuitBroken(m2)
               THEN [m2 EXCEPT !.CircuitBrokenAt = t] ELSE m2
        m4  == appendToHistoryKeyWithUsage(m3, t, FALSE)
    IN
    [m EXCEPT !.keyMetrics = [km0 EXCEPT ![mk] = m4],
              !.store = AddRecord(@, PersistentRecord(mk, t, FALSE))]

RecordSuccess(m, baseURL, apiKey) ==
    recordSuccessWithUsageLocked(m, baseURL, apiKey, now)

RecordFailure(m, baseURL, apiKey) ==
    recordFailureLocked(m, baseURL, apiKey, now)

(***************************************************************************)
(* Reserve: RecordRequestConnected.  The requestID returned is the         *)
(* nextRequestID of the manager after the call.                            *)
(***************************************************************************)
RecordRequestConnectedAt(m, baseURL, apiKey, timestamp) ==
    LET mk  == generateMetricsKey(baseURL, apiKey)
        km0 == getOrCreateKey(m.keyMetrics, baseURL, apiKey)
        m0  == km0[mk]
        rid == m.nextRequestID + 1
        m1  == [m0 EXCEPT
                  !.requestHistory = Append(@, RequestRecord(timestamp, TRUE, rid)),
                  !.pendingHistoryIdx =
                      [x \in DOMAIN m0.pendingHistoryIdx \cup {rid} |->
                          IF x = rid THEN Len(m0.requestHistory)
                          ELSE m0.pendingHistoryIdx[x]]]
    IN
    [m EXCEPT !.nextRequestID = rid,
              !.keyMetrics = [km0 EXCEPT ![mk] = cleanupHistoryLocked(m1, now)]]

RecordRequestConnected(m, baseURL, apiKey) ==
    RecordRequestConnectedAt(m, baseURL, apiKey, now)

(***************************************************************************)
(* Finalize.                                                               *)
(***************************************************************************)
\* The pending slot of requestID resolves: present and inside the history.
PendingResolves(metrics, requestID) ==
    /\ requestID \in DOMAIN metrics.pendingHistoryIdx
    /\ metrics.pendingHistoryIdx[requestID] >= 0
    /\ metrics.pendingHistoryIdx[requestID] < Len(metrics.requestHistory)

DeletePending(pend, requestID) ==
    [x \in DOMAIN pend \ {requestID} |-> pend[x]]

RecordRequestFinalizeSuccess(m, baseURL, apiKey, requestID) ==
    LET mk == generateMetricsKey(baseURL, apiKey) IN
    IF mk \notin DOMAIN m.keyMetrics
    THEN recordSuccessWithUsageLocked(m, baseURL, apiKey, now)
    ELSE IF ~PendingResolves(m.keyMetrics[mk], requestID)
    THEN recordSuccessWithUsageLocked(m, baseURL, apiKey, now)
    ELSE
      LET m0  == m.keyMetrics[mk]
          idx == m0.pendingHistoryIdx[requestID]
          m1  == [m0 EXCEPT
                    !.pendingHistoryIdx = DeletePending(@, requestID),
                    !.RequestCount = @ + 1,
                    !.SuccessCount = @ + 1,
                    !.ConsecutiveFailures = 0,
                    !.LastSuccessAt = now,
                    !.CircuitBrokenAt = NoTime]
          m2  == appendToWindowKey(m1, TRUE)
          m3  == [m2 EXCEPT !.requestHistory[idx + 1].Success = TRUE]
      IN
      [m EXCEPT !.keyMetrics[mk] = m3,
                !.store = AddRecord(@,
                    PersistentRecord(mk, m0.requestHistory[idx + 1].Timestamp, TRUE))]

RecordRequestFinalizeFailure(m, baseURL, apiKey, requestID) ==
    LET mk == generateMetricsKey(baseURL, apiKey) IN
    IF mk \notin DOMAIN m.keyMetrics
    THEN recordFailureLocked(m, baseURL, apiKey, now)
    ELSE IF ~PendingResolves(m.keyMetrics[mk], requestID)
    THEN recordFailureLocked(m, baseURL, apiKey, now)
    ELSE
      LET m0  == m.keyMetrics[mk]
          idx == m0.pendingHistoryIdx[requestID]
          m1  == [m0 EXCEPT
                    !.pendingHistoryIdx = DeletePending(@, requestID),
                    !.RequestCount = @ + 1,
                    !.FailureCount = @ + 1,
                    !.ConsecutiveFailures = @ + 1,
                    !.LastFailureAt = now]
          m2  == appendToWindowKey(m1, FALSE)
          m3  == IF m2.CircuitBrokenAt = NoTime /\ isKeyCircuitBroken(m2)
                 THEN [m2 EXCEPT !.CircuitBrokenAt = now] ELSE m2
          m4  == [m3 EXCEPT !.requestHistory[idx + 1].Success = FALSE]
      IN
      [m EXCEPT !.keyMetrics[mk] = m4,
                !.store = AddRecord(@,
                    PersistentRecord(mk, m0.requestHistory[idx + 1].Timestamp, FALSE))]

\* Client-cancel that removes the slot without shifting the later indices.
RecordRequestFinalizeClientCancel_NoShift(m, baseURL, apiKey, requestID) ==
    LET mk == generateMetricsKey(baseURL, apiKey) IN
    IF mk \notin DOMAIN m.keyMetrics
    THEN m
    ELSE IF ~PendingResolves(m.keyMetrics[mk], requestID)
    THEN m
    ELSE
      LET m0   == m.keyMetrics[mk]
          idx  == m0.pendingHistoryIdx[requestID]
          m1   == [m0 EXCEPT
                    !.RequestCount = @ + 1,
                    !.requestHistory = RemoveAt(@, idx + 1),
                    !.pendingHistoryIdx = DeletePending(@, requestID)]
      IN
      [m EXCEPT !.keyMetrics[mk] = m1]

\* Client-cancel accounted like an upstream failure.
RecordRequestFinalizeClientCancel_AsFailure(m, baseURL, apiKey, requestID) ==
    RecordRequestFinalizeFailure(m, baseURL, apiKey, requestID)

RecordRequestFinalizeClientCancel(m, baseURL, apiKey, requestID) ==
    LET mk == generateMetricsKey(baseURL, apiKey) IN
    IF mk \notin DOMAIN m.keyMetrics
    THEN m
    ELSE IF ~PendingResolves(m.keyMetrics[mk], requestID)
    THEN m
    ELSE
      LET m0   == m.keyMetrics[mk]
          idx  == m0.pendingHistoryIdx[requestID]
          pend == DeletePending(m0.pendingHistoryIdx, requestID)
          m1   == [m0 EXCEPT
                    !.RequestCount = @ + 1,
                    !.requestHistory = RemoveAt(@, idx + 1),
                    !.pendingHistoryIdx =
                        [x \in DOMAIN pend |->
                            IF pend[x] > idx THEN pend[x] - 1 ELSE pend[x]]]
      IN
      [m EXCEPT !.keyMetrics[mk] = m1]

(***************************************************************************)
(* Active-request counter.                                                 *)
(***************************************************************************)
RecordRequestStart(m, baseURL, apiKey) ==
    LET mk  == generateMetricsKey(baseURL, apiKey)
        km0 == getOrCreateKey(m.keyMetrics, baseURL, apiKey)
    IN
    [m EXCEPT !.keyMetrics = [km0 EXCEPT ![mk].ActiveRequests = @ + 1]]

\* End of a request that decrements the counter whatever its value.
RecordRequestEnd_NoFloor(m, baseURL, apiKey) ==
    LET mk == generateMetricsKey(baseURL, apiKey) IN
    IF mk \in DOMAIN m.keyMetrics
    THEN [m EXCEPT !.keyMetrics[mk].ActiveRequests = @ - 1]
    ELSE m

RecordRequestEnd(m, baseURL, apiKey) ==
    LET mk == generateMetricsKey(baseURL, apiKey) IN
    IF mk \in DOMAIN m.keyMetrics /\ m.keyMetrics[mk].ActiveRequests > 0
    THEN [m EXCEPT !.keyMetrics[mk].ActiveRequests = @ - 1]
    ELSE m

\* ResetKey: every field of an existing row goes back to its zero value.
ResetKey(m, baseURL, apiKey) ==
    LET mk == generateMetricsKey(baseURL, apiKey) IN
    IF mk \in DOMAIN m.keyMetrics
    THEN [m EXCEPT !.keyMetrics[mk] = NewKeyMetrics(baseURL, apiKey)]
    ELSE m

(***************************************************************************)
(* The background sweep of circuit breakers.                               *)
(***************************************************************************)
\* Sweep that already recovers a key at exactly the recovery time.
recoverExpiredCircuitBreakers_AtLeast(m) ==
    [m EXCEPT !.keyMetrics = [mk \in DOMAIN m.keyMetrics |->
          LET row == m.keyMetrics[mk] IN
          IF row.CircuitBrokenAt # NoTime
             /\ now - row.CircuitBrokenAt >= RecoveryMinutes
          THEN [row EXCEPT !.ConsecutiveFailures = 0,
                           !.recentResults = <<>>,
                           !.CircuitBrokenAt = NoTime]
          ELSE row]]

recoverExpiredCircuitBreakers(m) ==
    [m EXCEPT !.keyMetrics = [mk \in DOMAIN m.keyMetrics |->
          LET row == m.keyMetrics[mk] IN
          IF row.CircuitBrokenAt # NoTime
             /\ now - row.CircuitBrokenAt > RecoveryMinutes
          THEN [row EXCEPT !.ConsecutiveFailures = 0,
                           !.recentResults = <<>>,
                           !.CircuitBrokenAt = NoTime]
          ELSE row]]

(***************************************************************************)
(* Start-up with a store: NewMetricsManagerWithPersistence rebuilds the    *)
(* rows from the records of the store.  The table keeps timestamps in      *)
(* whole seconds; the model's clock is in whole minutes, so the stored     *)
(* timestamp is the timestamp.                                             *)
(***************************************************************************)
LoadMinutes == 1440

WindowLoadMinutes == 15

\* ORDER BY timestamp ASC; records of one timestamp stay in insertion order.
OrderByTimestamp(records) ==
    LET before(j, i) ==
            \/ records[j].Timestamp < records[i].Timestamp
            \/ records[j].Timestamp = records[i].Timestamp /\ j < i
        rank(i) == Cardinality({j \in DOMAIN records : before(j, i)}) + 1
    IN [r \in 1 .. Len(records) |->
            records[CHOOSE i \in DOMAIN records : rank(i) = r]]

\* SQLiteStore.LoadRecords, for one metrics identity: WHERE timestamp >= ?
\* AND api_type = ? ORDER BY timestamp ASC.
LoadRecords(st, metricsKey, since, type) ==
    LET wanted(r) == r.Timestamp >= since /\ r.APIType = type
    IN OrderByTimestamp(SelectSeq(st[metricsKey], wanted))

\* The first loop of loadFromStore: one record after the other into its row.
RECURSIVE loadRecordsInto(_, _)
loadRecordsInto(metrics, records) ==
    IF records = <<>> THEN metrics
    ELSE
      LET r  == Head(records)
          m1 == [metrics EXCEPT
                    !.requestHistory =
                        Append(@, RequestRecord(r.Timestamp, r.Success, 0)),
                    !.RequestCount = @ + 1]
          m2 == IF r.Success
                THEN [m1 EXCEPT
                        !.SuccessCount = @ + 1,
                        !.LastSuccessAt =
                            IF @ = NoTime \/ r.Timestamp > @ THEN r.Timestamp ELSE @]
                ELSE [m1 EXCEPT
                        !.FailureCount = @ + 1,
                        !.LastFailureAt =
                            IF @ = NoTime \/ r.Timestamp > @ THEN r.Timestamp ELSE @]
      IN loadRecordsInto(m2, Tail(records))

\* The second loop with every record of the history taken as recent.
rebuildWindow_AllHistory(metrics, t) ==
    LET recentRecords == [i \in DOMAIN metrics.requestHistory |->
                              metrics.requestHistory[i].Success]
        n     == Len(recentRecords)
        start == IF n > windowSize THEN n - windowSize ELSE 0
    IN [metrics EXCEPT !.recentResults = SubSeq(recentRecords, start + 1, n)]

\* The second loop of loadFromStore: the window holds the outcomes of the
\* last windowSize records younger than 15 minutes.
rebuildWindow(metrics, t) ==
    LET windowCutoff  == t - WindowLoadMinutes
        isRecent(record) == record.Timestamp > windowCutoff
        recent        == SelectSeq(metrics.requestHistory, isRecent)
        recentRecords == [i \in DOMAIN recent |-> recent[i].Success]
        n     == Len(recentRecords)
        start == IF n > windowSize THEN n - windowSize ELSE 0
    IN [metrics EXCEPT !.recentResults = SubSeq(recentRecords, start + 1, n)]

\* getOrCreateKeyLocked: the row of a loaded record carries the record's
\* MetricsKey.
NewLoadedKeyMetrics(metricsKey) ==
    [NewKeyMetrics("", "") EXCEPT !.MetricsKey = metricsKey]

\* loadFromStore at time t on a manager whose map is empty.
loadFromStore(st, t) ==
    LET since  == t - LoadMinutes
        loaded == {mk \in DOMAIN st : LoadRecords(st, mk, since, apiType) # <<>>}
    IN [mk \in loaded |->
          rebuildWindow(
              loadRecordsInto(NewLoadedKeyMetrics(mk),
                              LoadRecords(st, mk, since, apiType)),
              t)]

(***************************************************************************)
(* The hourly sweep of rows without recent activity.                       *)
(***************************************************************************)
StaleMinutes == 2880

\* lastActivity of cleanupStaleKeys; NoTime stands for the zero time.
lastActivity(metrics) == Max(metrics.LastSuccessAt, metrics.LastFailureAt)

cleanupStaleKeys(m, t) ==
    LET stale(mk) ==
            \/ lastActivity(m.keyMetrics[mk]) = NoTime
            \/ t - lastActivity(m.keyMetrics[mk]) > StaleMinutes
    IN [m EXCEPT !.keyMetrics =
            [mk \in {x \in DOMAIN m.keyMetrics : ~stale(x)} |-> m.keyMetrics[mk]]]

(***************************************************************************)
(* The clock.                                                              *)
(***************************************************************************)
Tick(d, bound) ==
    /\ ticks < bound
    /\ now' = now + d
    /\ ticks' = ticks + 1

(***************************************************************************)
(* The request handler at rest: what the handler variables hold while no   *)
(* client request is being served.                                         *)
(***************************************************************************)
NoChannel == 0 - 1

NoKey == ""

\* A nil *FailoverError, and "nothing written to the client".
NoResponse == [Status |-> 0, Body |-> ""]

NoRequest == [isStream |-> FALSE]

\* failedNames is an auxiliary field no operation reads: the Names of the
\* channels the executor returned unhandled for.
IdleMC ==
    [ failedChannels     |-> {},
      lastFailoverError  |-> NoResponse,
      channelAttempt     |-> 0,
      maxChannelAttempts |-> 0,
      failedNames        |-> {} ]

IdleEX ==
    [ channelIndex           |-> NoChannel,
      urlIdx                 |-> 0,
      attempt                |-> 0,
      failedKeys             |-> {},
      lastFailoverError      |-> NoResponse,
      deprioritizeCandidates |-> {},
      deprioritized          |-> {},       \* keys handed to deprioritizeKey
      forceProbeMode         |-> FALSE,
      apiKey                 |-> NoKey,
      requestID              |-> 0,
      sent                   |-> FALSE,    \* a request went to the upstream
      sentOn                 |-> {} ]      \* auxiliary: the <<base URL, key>>
                                           \* pairs requests were sent on

\* One configured channel (UpstreamConfig).  PromotionUntil is NoTime for nil.
UpstreamConfig(name, serviceType, baseURLs, apiKeys, status, priority, promotionUntil) ==
    [ Name           |-> name,
      ServiceType    |-> serviceType,
      BaseURLs       |-> baseURLs,
      APIKeys        |-> apiKeys,
      HistoricalAPIKeys |-> <<>>,
      Status         |-> status,
      Priority       |-> priority,
      PromotionUntil |-> promotionUntil ]

\* The configuration the request handler is checked with: two active
\* channels in priority order, none in promotion.  Channel 0 is an
\* OpenAI-compatible upstream with two base URLs and two keys, channel 1 a
\* Claude upstream with one base URL and one key.
HandlerChatUpstream ==
    << UpstreamConfig("A", "openai", <<"u1", "u2">>, <<"k1", "k2">>, "active", 1, NoTime),
       UpstreamConfig("B", "claude", <<"u2">>, <<"k1">>, "active", 2, NoTime) >>

NoReason == ""

\* No call of SelectChannel yet.
NoSelection ==
    [userID |-> "", failedChannels |-> {}, ChannelIndex |-> NoChannel, Reason |-> NoReason]

InitHandlerIdle ==
    /\ pc = "idle"
    /\ req = NoRequest
    /\ ctxDone = FALSE
    /\ mc = IdleMC
    /\ ex = IdleEX
    /\ traceAffinity = EmptyMap
    /\ failedKeysCache = <<>>
    /\ malformedURLs = {}
    /\ clientResponse = NoResponse
    /\ lastObserved = NoResponse
    /\ served = 0
    /\ chatUpstream = HandlerChatUpstream
    /\ selection = NoSelection
    /\ affinityFor = EmptyMap

(***************************************************************************)
(* Callers of the engine: each holds the requestID its Reserve returned   *)
(* and passes it to one Finalize.                                          *)
(***************************************************************************)
Reserve(u, k, bound) ==
    /\ nextRequestID < bound
    /\ Becomes(RecordRequestConnected(Manager, u, k))
    /\ inflight' = inflight \cup {[rid |-> nextRequestID + 1, u |-> u, k |-> k]}
    /\ UNCHANGED <<schedulerVars, now, ticks, handlerVars>>

FinalizeSuccess(r) ==
    /\ r \in inflight
    /\ Becomes(RecordRequestFinalizeSuccess(Manager, r.u, r.k, r.rid))
    /\ inflight' = inflight \ {r}
    /\ UNCHANGED <<schedulerVars, now, ticks, handlerVars>>

FinalizeFailure(r) ==
    /\ r \in inflight
    /\ Becomes(RecordRequestFinalizeFailure(Manager, r.u, r.k, r.rid))
    /\ inflight' = inflight \ {r}
    /\ UNCHANGED <<schedulerVars, now, ticks, handlerVars>>

FinalizeClientCancel(r) ==
    /\ r \in inflight
    /\ Becomes(RecordRequestFinalizeClientCancel(Manager, r.u, r.k, r.rid))
    /\ inflight' = inflight \ {r}
    /\ UNCHANGED <<schedulerVars, now, ticks, handlerVars>>

(***************************************************************************)
(* Specification of the pending-slot table: concurrent reservations on     *)
(* one row and clock jumps.                                                *)
(***************************************************************************)
InitEngine(ws) ==
    /\ now = 0
    /\ ticks = 0
    /\ windowSize = ws
    /\ InitSQLiteStore(DefaultBatchSize)
    /\ stream = NoStream
    /\ keyMetrics = EmptyMap
    /\ nextRequestID = 0
    /\ store = EmptyStore
    /\ inflight = {}
    /\ InitHandlerIdle

Init == InitEngine(MinWindowSize)

PendingKeys == {"k1"}

PendingReserve == \E k \in PendingKeys : Reserve("u1", k, MaxRequests)
PendingFinalizeSuccess == \E r \in inflight : FinalizeSuccess(r)
PendingFinalizeFailure == \E r \in inflight : FinalizeFailure(r)
PendingFinalizeClientCancel == \E r \in inflight : FinalizeClientCancel(r)
PendingTick ==
    /\ \E d \in {RecoveryMinutes + 1, RetentionMinutes} : Tick(d, MaxTicks)
    /\ UNCHANGED <<metricsVars, inflight, handlerVars, schedulerVars>>

Next ==
    \/ PendingReserve
    \/ PendingFinalizeSuccess
    \/ PendingFinalizeFailure
    \/ PendingFinalizeClientCancel
    \/ PendingTick

Spec == Init /\ [][Next]_vars

(***************************************************************************)
(* Specification of the circuit breaker with the default window of 10:     *)
(* requests on one key run one after the other and the clock advances.     *)
(***************************************************************************)
InitCircuit == InitEngine(DefaultWindowSize)

CircuitKeys == {"k1"}

CircuitReserve ==
    /\ inflight = {}
    /\ \E k \in CircuitKeys : Reserve("u1", k, MaxCircuitRequests)
CircuitFinalizeSuccess == \E r \in inflight : FinalizeSuccess(r)
CircuitFinalizeFailure == \E r \in inflight : FinalizeFailure(r)
CircuitFinalizeClientCancel == \E r \in inflight : FinalizeClientCancel(r)
CircuitTick ==
    /\ Tick(RecoveryMinutes, MaxCircuitTicks)
    /\ UNCHANGED <<metricsVars, inflight, handlerVars, schedulerVars>>

NextCircuit ==
    \/ CircuitReserve
    \/ CircuitFinalizeSuccess
    \/ CircuitFinalizeFailure
    \/ CircuitFinalizeClientCancel
    \/ CircuitTick

SpecCircuit == InitCircuit /\ [][NextCircuit]_vars

(***************************************************************************)
(* Specification of the recovery sweep over two keys, on an engine built   *)
(* with the smallest window (3), so that both keys can be circuit-broken   *)
(* at different times.  Outcomes are recorded with RecordSuccess and       *)
(* RecordFailure.                                                          *)
(***************************************************************************)
InitSweep == InitEngine(MinWindowSize)

RECURSIVE SumRequestCount(_, _)
SumRequestCount(km, keys) ==
    IF keys = {} THEN 0
    ELSE LET mk == CHOOSE x \in keys : TRUE IN
         km[mk].RequestCount + SumRequestCount(km, keys \ {mk})

SweepRecordSuccess ==
    /\ SumRequestCount(keyMetrics, DOMAIN keyMetrics) < MaxSweepRequests
    /\ \E k \in APIKeys : Becomes(RecordSuccess(Manager, "u1", k))
    /\ UNCHANGED <<schedulerVars, now, ticks, inflight, handlerVars>>
SweepRecordFailure ==
    /\ SumRequestCount(keyMetrics, DOMAIN keyMetrics) < MaxSweepRequests
    /\ \E k \in APIKeys : Becomes(RecordFailure(Manager, "u1", k))
    /\ UNCHANGED <<schedulerVars, now, ticks, inflight, handlerVars>>
SweepTick ==
    /\ \E d \in {RecoveryMinutes, RecoveryMinutes + 1} : Tick(d, MaxSweepTicks)
    /\ UNCHANGED <<metricsVars, inflight, handlerVars, schedulerVars>>
SweepRecover ==
    /\ Becomes(recoverExpiredCircuitBreakers(Manager))
    /\ UNCHANGED <<schedulerVars, now, ticks, inflight, handlerVars>>

NextSweep ==
    \/ SweepRecordSuccess
    \/ SweepRecordFailure
    \/ SweepTick
    \/ SweepRecover

SpecSweep == InitSweep /\ [][NextSweep]_vars

(***************************************************************************)
(* Configuration of the chat endpoint.  Channel index i of the code is     *)
(* chatUpstream[i + 1].  The URL manager keeps the configured URL order.   *)
(***************************************************************************)
ChannelIndexes == 0 .. (Len(chatUpstream) - 1)

\* getUpstreamByIndex; asked only for indexes of the configuration.
Upstream(channelIndex) == chatUpstream[channelIndex + 1]

\* ChannelInfo.Priority: a priority of 0 defaults to the index.
ChannelPriority(channelIndex) ==
    IF Upstream(channelIndex).Priority = 0 THEN channelIndex
    ELSE Upstream(channelIndex).Priority

\* getActiveChannels: the indexes of the channels that are not disabled,
\* sorted by priority.  sort.Slice on fewer than 12 elements is an insertion
\* sort, so channels of equal priority stay in index order.
ActiveChannels ==
    LET S == {i \in ChannelIndexes : Upstream(i).Status # "disabled"}
        before(j, i) ==
            \/ ChannelPriority(j) < ChannelPriority(i)
            \/ ChannelPriority(j) = ChannelPriority(i) /\ j < i
        rank(i) == Cardinality({j \in S : before(j, i)}) + 1
    IN [r \in 1 .. Cardinality(S) |-> CHOOSE i \in S : rank(i) = r]

userID == "user"

\* Upstream answers outside 2xx, as ShouldRetryWithNextKey classifies them.
FailoverResponses ==
    { [Status |-> 429, Body |-> "rate limited"],
      [Status |-> 500, Body |-> "upstream down"] }

TerminalResponses == { [Status |-> 400, Body |-> "bad request"] }

isQuotaRelated(resp) == resp.Status \in {401, 402, 403, 429}

\* What the handler writes itself.
ServiceUnavailable == [Status |-> 503, Body |-> "service_unavailable"]

ServerError == [Status |-> 500, Body |-> "server_error"]

Completion == [Status |-> 200, Body |-> "completion"]

EventStream == [Status |-> 200, Body |-> "event stream"]

Range(s) == {s[i] : i \in DOMAIN s}

KeepNot(s, drop) ==
    LET F[i \in 0 .. Len(s)] ==
          IF i = 0 THEN <<>>
          ELSE IF s[i] \in drop THEN F[i - 1] ELSE Append(F[i - 1], s[i])
    IN F[Len(s)]

(***************************************************************************)
(* The Failed-Key cache of the ConfigManager.  The cache is kept ordered   *)
(* by failure time; within one request no cooldown elapses.                *)
(***************************************************************************)
failedKeyCacheKey_NoType(type, apiKey) == apiKey

\* The composite cache key apiType + ":" + apiKey.
failedKeyCacheKey(type, apiKey) == type \o ":" \o apiKey

MarkKeyAsFailed(cache, apiKey, type) ==
    Append(KeepNot(cache, {failedKeyCacheKey(type, apiKey)}),
           failedKeyCacheKey(type, apiKey))

isKeyFailed(apiKey, type) == failedKeyCacheKey(type, apiKey) \in Range(failedKeysCache)

\* The cache without the entries of the upstream's keys under type.
clearFailedKeysForUpstream(cache, upstream, type) ==
    KeepNot(cache, {failedKeyCacheKey(type, upstream.APIKeys[i]) :
                        i \in DOMAIN upstream.APIKeys})

\* Key selection that does not look at the keys that failed in this call.
GetNextAPIKey_IgnoreLocal(upstream, failedKeys, type) ==
    IF Len(upstream.APIKeys) = 0 THEN NoKey
    ELSE IF Len(upstream.APIKeys) = 1 THEN upstream.APIKeys[1]
    ELSE
      LET unavailable == {k \in Range(upstream.APIKeys) : isKeyFailed(k, type)}
          availableKeys == KeepNot(upstream.APIKeys, unavailable)
          candidates == Range(upstream.APIKeys)
          retryable == {i \in DOMAIN failedKeysCache :
                           \E k \in candidates :
                               failedKeysCache[i] = failedKeyCacheKey(type, k)}
          oldest == CHOOSE i \in retryable : \A j \in retryable : i <= j
      IN
      IF Len(availableKeys) > 0 THEN availableKeys[1]
      ELSE IF retryable # {}
      THEN CHOOSE k \in candidates : failedKeysCache[oldest] = failedKeyCacheKey(type, k)
      ELSE NoKey

\* The key to try next, NoKey when GetNextAPIKey returns an error.
GetNextAPIKey(upstream, failedKeys, type) ==
    IF Len(upstream.APIKeys) = 0 THEN NoKey
    ELSE IF Len(upstream.APIKeys) = 1 THEN upstream.APIKeys[1]
    ELSE
      LET unavailable == {k \in Range(upstream.APIKeys) :
                             k \in failedKeys \/ isKeyFailed(k, type)}
          availableKeys == KeepNot(upstream.APIKeys, unavailable)
          candidates == Range(upstream.APIKeys) \ failedKeys
          retryable == {i \in DOMAIN failedKeysCache :
                           \E k \in candidates :
                               failedKeysCache[i] = failedKeyCacheKey(type, k)}
          oldest == CHOOSE i \in retryable : \A j \in retryable : i <= j
      IN
      IF Len(availableKeys) > 0 THEN availableKeys[1]
      ELSE IF retryable # {}
      THEN CHOOSE k \in candidates : failedKeysCache[oldest] = failedKeyCacheKey(type, k)
      ELSE NoKey

(***************************************************************************)
(* The Failed-Key cache over time: each entry holds the time of the        *)
(* latest failure and the number of failures.  Durations are in minutes.   *)
(***************************************************************************)
KeyRecoveryMinutes == 2
MaxFailureCount == 2

FailedKey(timestamp, failureCount) ==
    [Timestamp |-> timestamp, FailureCount |-> failureCount]

recoveryTime_NeverDoubled(failure) == KeyRecoveryMinutes

\* The cooldown of an entry: doubled once the failure count exceeds the
\* maximum.
recoveryTime(failure) ==
    IF failure.FailureCount > MaxFailureCount
    THEN KeyRecoveryMinutes * 2
    ELSE KeyRecoveryMinutes

\* MarkKeyAsFailed at time t.
MarkKeyAsFailedAt(cache, apiKey, type, t) ==
    LET cacheKey == failedKeyCacheKey(type, apiKey)
        failure  == IF cacheKey \in DOMAIN cache
                    THEN FailedKey(t, cache[cacheKey].FailureCount + 1)
                    ELSE FailedKey(t, 1)
    IN [ck \in DOMAIN cache \cup {cacheKey} |->
           IF ck = cacheKey THEN failure ELSE cache[ck]]

\* isKeyFailed at time t.
isKeyFailedAt(cache, apiKey, type, t) ==
    LET cacheKey == failedKeyCacheKey(type, apiKey) IN
    /\ cacheKey \in DOMAIN cache
    /\ t - cache[cacheKey].Timestamp < recoveryTime(cache[cacheKey])

\* One round of cleanupExpiredFailures at time t.
cleanupExpiredFailures(cache, t) ==
    LET kept == {ck \in DOMAIN cache : ~(t - cache[ck].Timestamp > recoveryTime(cache[ck]))}
    IN [ck \in kept |-> cache[ck]]

(***************************************************************************)
(* Channel health and selection.                                           *)
(***************************************************************************)
RECURSIVE TotalResults(_, _, _)
TotalResults(km, baseURL, keys) ==
    IF keys = <<>> THEN <<>>
    ELSE LET mk == generateMetricsKey(baseURL, Head(keys)) IN
         (IF mk \in DOMAIN km THEN km[mk].recentResults ELSE <<>>)
             \o TotalResults(km, baseURL, Tail(keys))

IsChannelHealthyWithKeys(baseURL, activeKeys) ==
    LET totalResults == TotalResults(keyMetrics, baseURL, activeKeys) IN
    IF Len(activeKeys) = 0 THEN FALSE
    ELSE IF Len(totalResults) = 0 THEN TRUE
    ELSE IF Len(totalResults) < minRequests THEN TRUE
    ELSE ~FailureRateAtLeastThreshold(totalResults)

\* failureRate(a) < failureRate(b), the rate of no results being 0.
LowerFailureRate(a, b) ==
    IF Len(b) = 0 THEN FALSE
    ELSE IF Len(a) = 0 THEN CountFalse(b) > 0
    ELSE CountFalse(a) * Len(b) < CountFalse(b) * Len(a)

ChannelResults(channelIndex) ==
    TotalResults(keyMetrics, Upstream(channelIndex).BaseURLs[1], Upstream(channelIndex).APIKeys)

\* No health check at all.
ChannelHealthy_Always(channelIndex) == TRUE

\* The health check of SelectChannel, on upstream.BaseURL and its keys.
ChannelHealthy(channelIndex) ==
    IsChannelHealthyWithKeys(Upstream(channelIndex).BaseURLs[1], Upstream(channelIndex).APIKeys)

\* config.IsChannelInPromotion: a promotion deadline that has not passed.
IsChannelInPromotion(upstream) ==
    /\ upstream.PromotionUntil # NoTime
    /\ now < upstream.PromotionUntil

\* The promoted channel looked up in the whole configuration, whatever the
\* status of the channel.
findPromotedChannel_AllChannels ==
    LET promoted == {i \in ChannelIndexes : IsChannelInPromotion(Upstream(i))} IN
    IF promoted = {} THEN NoChannel
    ELSE CHOOSE i \in promoted : \A j \in promoted : i <= j

\* The first active channel, in priority order, that is in promotion.
findPromotedChannel ==
    LET promoted == {r \in DOMAIN ActiveChannels :
                        /\ Upstream(ActiveChannels[r]).Status = "active"
                        /\ IsChannelInPromotion(Upstream(ActiveChannels[r]))}
    IN IF promoted = {} THEN NoChannel
       ELSE ActiveChannels[CHOOSE r \in promoted : \A q \in promoted : r <= q]

\* The fallback that forgets which channels failed in this request.
selectFallbackChannel_IgnoreFailed(failedChannels) ==
    LET candidates == {i \in DOMAIN ActiveChannels :
                          /\ Upstream(ActiveChannels[i]).Status = "active"
                          /\ Len(Upstream(ActiveChannels[i]).APIKeys) > 0}
        best == {i \in candidates :
                    \A j \in candidates \ {i} :
                        ~LowerFailureRate(ChannelResults(ActiveChannels[j]),
                                          ChannelResults(ActiveChannels[i]))}
    IN
    IF best = {} THEN NoChannel
    ELSE ActiveChannels[CHOOSE i \in best : TRUE]

\* The first channel with the strictly lowest failure rate, NoChannel if
\* no channel is left.
selectFallbackChannel(failedChannels) ==
    LET candidates == {i \in DOMAIN ActiveChannels :
                          /\ ActiveChannels[i] \notin failedChannels
                          /\ Upstream(ActiveChannels[i]).Status = "active"
                          /\ Len(Upstream(ActiveChannels[i]).APIKeys) > 0}
        best == {i \in candidates :
                    /\ \A j \in candidates : j < i =>
                          LowerFailureRate(ChannelResults(ActiveChannels[i]),
                                           ChannelResults(ActiveChannels[j]))
                    /\ \A j \in candidates : j > i =>
                          ~LowerFailureRate(ChannelResults(ActiveChannels[j]),
                                            ChannelResults(ActiveChannels[i]))}
    IN
    IF best = {} THEN NoChannel
    ELSE ActiveChannels[CHOOSE i \in best : TRUE]

compositeKey(user) == <<apiType, user>>

SelectionResult(channelIndex, reason) ==
    [ChannelIndex |-> channelIndex, Reason |-> reason]

\* The result of SelectChannel; ChannelIndex is NoChannel when it returns
\* an error.
SelectChannel(user, failedChannels) ==
    LET promoted == findPromotedChannel
        preferred == traceAffinity[compositeKey(user)]
        byPriority == {r \in DOMAIN ActiveChannels :
                          /\ ActiveChannels[r] \notin failedChannels
                          /\ Upstream(ActiveChannels[r]).Status = "active"
                          /\ Len(Upstream(ActiveChannels[r]).APIKeys) > 0
                          /\ ChannelHealthy(ActiveChannels[r])}
        fallback == selectFallbackChannel(failedChannels)
    IN
    IF Len(ActiveChannels) = 0 THEN SelectionResult(NoChannel, NoReason)
    ELSE IF /\ promoted # NoChannel
            /\ promoted \notin failedChannels
            /\ Len(Upstream(promoted).APIKeys) > 0
    THEN SelectionResult(promoted, "promotion_priority")
    ELSE IF /\ user # ""
            /\ compositeKey(user) \in DOMAIN traceAffinity
            /\ preferred \in Range(ActiveChannels)
            /\ preferred \notin failedChannels
            /\ Upstream(preferred).Status = "active"
            /\ ChannelHealthy(preferred)
    THEN SelectionResult(preferred, "trace_affinity")
    ELSE IF byPriority # {}
    THEN SelectionResult(
             ActiveChannels[CHOOSE r \in byPriority : \A q \in byPriority : r <= q],
             "priority_order")
    ELSE SelectionResult(fallback, IF fallback = NoChannel THEN NoReason ELSE "fallback")

SetTraceAffinity(affinity, user, channelIndex) ==
    IF user = "" THEN affinity
    ELSE [x \in DOMAIN affinity \cup {<<apiType, user>>} |->
             IF x = <<apiType, user>> THEN channelIndex ELSE affinity[x]]

AreAllKeysSuspended(baseURL, apiKeys) ==
    /\ Len(apiKeys) > 0
    /\ \A i \in DOMAIN apiKeys : ShouldSuspendKey(baseURL, apiKeys[i])

\* buildProviderRequest fails: the base URL does not parse.
BuildFails(baseURL) == baseURL \in malformedURLs

(***************************************************************************)
(* The chat handler in multi-channel mode: HandleMultiChannelFailover      *)
(* around TryUpstreamWithAllKeys.  pc is the position of the handler:      *)
(*   "idle"     no request is being served,                                *)
(*   "select"   at the head of the channel loop of the wrapper,            *)
(*   "attempt"  at the head of the key loop of the executor,               *)
(*   "sent"     in SendRequest, holding a reserved requestID,              *)
(*   "handling" in handleSuccess, reading the 2xx response.                *)
(***************************************************************************)
currentBaseURL == Upstream(ex.channelIndex).BaseURLs[ex.urlIdx]

\* A client request arrives.
HandlerStart ==
    /\ pc = "idle"
    /\ served < MaxServed
    /\ \E isStream \in BOOLEAN : req' = [isStream |-> isStream]
    /\ pc' = "select"
    /\ ctxDone' = FALSE
    /\ mc' = [IdleMC EXCEPT !.maxChannelAttempts = Len(ActiveChannels)]
    /\ ex' = IdleEX
    /\ clientResponse' = NoResponse
    /\ lastObserved' = NoResponse
    /\ served' = served + 1
    /\ UNCHANGED <<schedulerVars, now, ticks, metricsVars, inflight, traceAffinity,
                   failedKeysCache, malformedURLs>>

\* The client disconnects.  A request to the upstream in flight fails with
\* context.Canceled, and so does the read of a response in progress.
ClientCancel ==
    /\ pc # "idle"
    /\ ~ctxDone
    /\ ctxDone' = TRUE
    /\ UNCHANGED <<schedulerVars, now, ticks, metricsVars, inflight, pc, req, mc, ex,
                   traceAffinity, failedKeysCache, malformedURLs,
                   clientResponse, lastObserved, served>>

\* handleAllChannelsFailed of the chat handler.
handleAllChannelsFailed(failoverErr) ==
    IF failoverErr # NoResponse THEN failoverErr ELSE ServiceUnavailable

\* The wrapper leaves its loop: every channel was tried or SelectChannel
\* returned an error.
MultiChannelExhausted ==
    /\ pc = "select"
    /\ \/ mc.channelAttempt >= mc.maxChannelAttempts
       \/ /\ ~ctxDone
          /\ SelectChannel(userID, mc.failedChannels).ChannelIndex = NoChannel
    /\ clientResponse' = handleAllChannelsFailed(mc.lastFailoverError)
    /\ pc' = "idle"
    /\ UNCHANGED <<schedulerVars, now, ticks, metricsVars, inflight, req, ctxDone, mc, ex,
                   traceAffinity, failedKeysCache, malformedURLs,
                   lastObserved, served>>

\* The wrapper finds the request context done at the head of its loop.
MultiChannelCancelled ==
    /\ pc = "select"
    /\ mc.channelAttempt < mc.maxChannelAttempts
    /\ ctxDone
    /\ pc' = "idle"
    /\ UNCHANGED <<schedulerVars, now, ticks, metricsVars, inflight, req, ctxDone, mc, ex,
                   traceAffinity, failedKeysCache, malformedURLs,
                   clientResponse, lastObserved, served>>

\* The wrapper selects a channel and enters the executor.
MultiChannelSelect ==
    /\ pc = "select"
    /\ mc.channelAttempt < mc.maxChannelAttempts
    /\ ~ctxDone
    /\ SelectChannel(userID, mc.failedChannels).ChannelIndex # NoChannel
    /\ LET channelIndex == SelectChannel(userID, mc.failedChannels).ChannelIndex
           upstream == Upstream(channelIndex)
       IN ex' = [IdleEX EXCEPT
                   !.channelIndex = channelIndex,
                   !.urlIdx = 1,
                   !.forceProbeMode =
                       AreAllKeysSuspended(upstream.BaseURLs[1], upstream.APIKeys)]
    /\ pc' = "attempt"
    /\ UNCHANGED <<schedulerVars, now, ticks, metricsVars, inflight, req, ctxDone, mc,
                   traceAffinity, failedKeysCache, malformedURLs,
                   clientResponse, lastObserved, served>>

\* The executor returned handled = false: the wrapper marks the channel
\* failed, keeps a non-nil failover error and goes round its loop.
ReturnUnhandled(failoverErr) ==
    /\ mc' = [mc EXCEPT
                !.failedChannels = @ \cup {ex.channelIndex},
                !.lastFailoverError =
                    IF failoverErr # NoResponse THEN failoverErr ELSE @,
                !.channelAttempt = @ + 1,
                !.failedNames = @ \cup {Upstream(ex.channelIndex).Name}]
    /\ pc' = "select"

\* The executor returned handled = true: the wrapper sets the trace
\* affinity when successKey is not empty, and returns.
ReturnHandled(successKey) ==
    /\ traceAffinity' =
          IF successKey # NoKey
          THEN SetTraceAffinity(traceAffinity, userID, ex.channelIndex)
          ELSE traceAffinity
    /\ pc' = "idle"

\* All base URLs of the channel are used up.
ExecExhausted ==
    /\ pc = "attempt"
    /\ ex.urlIdx > Len(Upstream(ex.channelIndex).BaseURLs)
    /\ ReturnUnhandled(ex.lastFailoverError)
    /\ UNCHANGED <<schedulerVars, now, ticks, metricsVars, inflight, req, ctxDone, ex,
                   traceAffinity, failedKeysCache, malformedURLs,
                   clientResponse, lastObserved, served>>

\* No attempt or no key is left for the current base URL.
ExecNextURL ==
    /\ pc = "attempt"
    /\ ex.urlIdx <= Len(Upstream(ex.channelIndex).BaseURLs)
    /\ \/ ex.attempt >= Len(Upstream(ex.channelIndex).APIKeys)
       \/ GetNextAPIKey(Upstream(ex.channelIndex), ex.failedKeys, apiType) = NoKey
    /\ ex' = [ex EXCEPT !.urlIdx = @ + 1, !.attempt = 0, !.failedKeys = {}]
    /\ UNCHANGED <<schedulerVars, now, ticks, metricsVars, inflight, pc, req, ctxDone, mc,
                   traceAffinity, failedKeysCache, malformedURLs,
                   clientResponse, lastObserved, served>>

\* The next key of the current attempt; meaningful at pc = "attempt".
nextKey == GetNextAPIKey(Upstream(ex.channelIndex), ex.failedKeys, apiType)

AttemptReady ==
    /\ pc = "attempt"
    /\ ex.urlIdx <= Len(Upstream(ex.channelIndex).BaseURLs)
    /\ ex.attempt < Len(Upstream(ex.channelIndex).APIKeys)
    /\ nextKey # NoKey

\* The circuit check applied in force-probe mode too.
ExecSkipSuspended_IgnoreProbe ==
    /\ AttemptReady
    /\ ShouldSuspendKey(currentBaseURL, nextKey)
    /\ ex' = [ex EXCEPT !.failedKeys = @ \cup {nextKey}, !.attempt = @ + 1]
    /\ UNCHANGED <<schedulerVars, now, ticks, metricsVars, inflight, pc, req, ctxDone, mc,
                   traceAffinity, failedKeysCache, malformedURLs,
                   clientResponse, lastObserved, served>>

\* The key is circuit-broken and the request is not in force-probe mode.
ExecSkipSuspended ==
    /\ AttemptReady
    /\ ~ex.forceProbeMode
    /\ ShouldSuspendKey(currentBaseURL, nextKey)
    /\ ex' = [ex EXCEPT !.failedKeys = @ \cup {nextKey}, !.attempt = @ + 1]
    /\ UNCHANGED <<schedulerVars, now, ticks, metricsVars, inflight, pc, req, ctxDone, mc,
                   traceAffinity, failedKeysCache, malformedURLs,
                   clientResponse, lastObserved, served>>

AttemptProceeds ==
    /\ AttemptReady
    /\ ex.forceProbeMode \/ ~ShouldSuspendKey(currentBaseURL, nextKey)

\* buildRequest fails: the executor returns with a nil failover error.
ExecBuildFailed ==
    /\ AttemptProceeds
    /\ BuildFails(currentBaseURL)
    /\ ReturnUnhandled(NoResponse)
    /\ UNCHANGED <<schedulerVars, now, ticks, metricsVars, inflight, req, ctxDone, ex,
                   traceAffinity, failedKeysCache, malformedURLs,
                   clientResponse, lastObserved, served>>

\* RecordRequestStart, RecordRequestConnected, and the request is sent.
ExecSend ==
    /\ AttemptProceeds
    /\ ~BuildFails(currentBaseURL)
    /\ Becomes(RecordRequestConnected(
                   RecordRequestStart(Manager, currentBaseURL, nextKey),
                   currentBaseURL, nextKey))
    /\ ex' = [ex EXCEPT !.apiKey = nextKey, !.requestID = nextRequestID + 1,
                         !.sent = TRUE,
                         !.sentOn = @ \cup {<<currentBaseURL, nextKey>>}]
    /\ pc' = "sent"
    /\ UNCHANGED <<schedulerVars, now, ticks, inflight, req, ctxDone, mc,
                   traceAffinity, failedKeysCache, malformedURLs,
                   clientResponse, lastObserved, served>>

\* The attempt is accounted as a failure and the key loop continues.
ContinueAfterFailure(failoverErr) ==
    /\ Becomes(RecordRequestEnd(
                   RecordRequestFinalizeFailure(Manager, currentBaseURL, ex.apiKey,
                                                ex.requestID),
                   currentBaseURL, ex.apiKey))
    /\ failedKeysCache' = MarkKeyAsFailed(failedKeysCache, ex.apiKey, apiType)
    /\ ex' = [ex EXCEPT
                !.failedKeys = @ \cup {ex.apiKey},
                !.attempt = @ + 1,
                !.lastFailoverError =
                    IF failoverErr # NoResponse THEN failoverErr ELSE @,
                !.deprioritizeCandidates =
                    IF failoverErr # NoResponse /\ isQuotaRelated(failoverErr)
                    THEN @ \cup {ex.apiKey} ELSE @]
    /\ pc' = "attempt"

\* SendRequest returns context.Canceled.
ExecSendCancelled ==
    /\ pc = "sent"
    /\ ctxDone
    /\ Becomes(RecordRequestEnd(
                   RecordRequestFinalizeClientCancel(Manager, currentBaseURL, ex.apiKey,
                                                     ex.requestID),
                   currentBaseURL, ex.apiKey))
    /\ ReturnHandled(NoKey)
    /\ UNCHANGED <<schedulerVars, now, ticks, inflight, req, ctxDone, mc, ex, failedKeysCache,
                   malformedURLs, clientResponse, lastObserved, served>>

\* SendRequest returns another error: the upstream could not be reached.
ExecSendError ==
    /\ pc = "sent"
    /\ ~ctxDone
    /\ ContinueAfterFailure(NoResponse)
    /\ UNCHANGED <<schedulerVars, now, ticks, inflight, req, ctxDone, mc, traceAffinity,
                   malformedURLs, clientResponse, lastObserved, served>>

\* The upstream answers outside 2xx and the answer classifies as failover.
ExecFailoverStatus(resp) ==
    /\ pc = "sent"
    /\ ~ctxDone
    /\ ContinueAfterFailure(resp)
    /\ lastObserved' = resp
    /\ UNCHANGED <<schedulerVars, now, ticks, inflight, req, ctxDone, mc, traceAffinity,
                   malformedURLs, clientResponse, served>>

\* Terminal answer handled without releasing the reservation.
ExecTerminalStatus_NoFinalize(resp) ==
    /\ pc = "sent"
    /\ ~ctxDone
    /\ Becomes(RecordRequestEnd(Manager, currentBaseURL, ex.apiKey))
    /\ clientResponse' = resp
    /\ ReturnHandled(NoKey)
    /\ UNCHANGED <<schedulerVars, now, ticks, inflight, req, ctxDone, mc, ex, failedKeysCache,
                   malformedURLs, lastObserved, served>>

\* The upstream answers outside 2xx and the answer is terminal: it goes to
\* the client unchanged.
ExecTerminalStatus(resp) ==
    /\ pc = "sent"
    /\ ~ctxDone
    /\ Becomes(RecordRequestEnd(
                   RecordRequestFinalizeFailure(Manager, currentBaseURL, ex.apiKey,
                                                ex.requestID),
                   currentBaseURL, ex.apiKey))
    /\ clientResponse' = resp
    /\ ReturnHandled(NoKey)
    /\ UNCHANGED <<schedulerVars, now, ticks, inflight, req, ctxDone, mc, ex, failedKeysCache,
                   malformedURLs, lastObserved, served>>

\* The upstream answers 2xx: the keys queued for deprioritization go to the
\* deprioritize callback, and handleSuccess starts reading the response.
ExecSuccessStatus ==
    /\ pc = "sent"
    /\ ~ctxDone
    /\ ex' = [ex EXCEPT !.deprioritized = @ \cup ex.deprioritizeCandidates]
    /\ pc' = "handling"
    /\ UNCHANGED <<schedulerVars, now, ticks, metricsVars, inflight, req, ctxDone, mc,
                   traceAffinity, failedKeysCache, malformedURLs,
                   clientResponse, lastObserved, served>>

\* handleSuccess returned no error: finalize success, return the key.
FinishSuccess(written) ==
    /\ Becomes(RecordRequestEnd(
                   RecordRequestFinalizeSuccess(Manager, currentBaseURL, ex.apiKey,
                                                ex.requestID),
                   currentBaseURL, ex.apiKey))
    /\ clientResponse' = written
    /\ ReturnHandled(ex.apiKey)
    /\ UNCHANGED <<schedulerVars, now, ticks, inflight, req, ctxDone, mc, ex, failedKeysCache,
                   malformedURLs, lastObserved, served>>

\* Streaming: handleStreamSuccess copies the stream until a read fails or
\* ends, and handleSuccess returns its usage with a nil error.
HandleStreamSuccess ==
    /\ pc = "handling"
    /\ req.isStream
    /\ FinishSuccess(EventStream)

\* Not streaming, the body is read and written to the client.
HandleSuccessOK ==
    /\ pc = "handling"
    /\ ~req.isStream
    /\ ~ctxDone
    /\ FinishSuccess(Completion)

\* Not streaming, io.ReadAll returns context.Canceled.
HandleSuccessCancelled ==
    /\ pc = "handling"
    /\ ~req.isStream
    /\ ctxDone
    /\ Becomes(RecordRequestEnd(
                   RecordRequestFinalizeClientCancel(Manager, currentBaseURL, ex.apiKey,
                                                     ex.requestID),
                   currentBaseURL, ex.apiKey))
    /\ clientResponse' = ServerError
    /\ ReturnHandled(NoKey)
    /\ UNCHANGED <<schedulerVars, now, ticks, inflight, req, ctxDone, mc, ex, failedKeysCache,
                   malformedURLs, lastObserved, served>>

\* A read error answered with 500 and then failed over to the next key.
HandleSuccessReadError_Failover ==
    /\ pc = "handling"
    /\ ~req.isStream
    /\ ~ctxDone
    /\ ContinueAfterFailure(NoResponse)
    /\ clientResponse' = ServerError
    /\ UNCHANGED <<schedulerVars, now, ticks, inflight, req, ctxDone, mc, traceAffinity,
                   malformedURLs, lastObserved, served>>

\* Not streaming, io.ReadAll returns another error.
HandleSuccessReadError ==
    /\ pc = "handling"
    /\ ~req.isStream
    /\ ~ctxDone
    /\ Becomes(RecordRequestEnd(
                   RecordRequestFinalizeFailure(Manager, currentBaseURL, ex.apiKey,
                                                ex.requestID),
                   currentBaseURL, ex.apiKey))
    /\ failedKeysCache' = MarkKeyAsFailed(failedKeysCache, ex.apiKey, apiType)
    /\ clientResponse' = ServerError
    /\ ReturnHandled(NoKey)
    /\ UNCHANGED <<schedulerVars, now, ticks, inflight, req, ctxDone, mc, ex,
                   malformedURLs, lastObserved, served>>

\* Not streaming, a Claude upstream answers 2xx with a body that is not
\* JSON: ErrInvalidResponseBody, nothing was written, the key loop continues.
HandleSuccessInvalidBody ==
    /\ pc = "handling"
    /\ ~req.isStream
    /\ ~ctxDone
    /\ Upstream(ex.channelIndex).ServiceType = "claude"
    /\ ContinueAfterFailure(NoResponse)
    /\ UNCHANGED <<schedulerVars, now, ticks, inflight, req, ctxDone, mc, traceAffinity,
                   malformedURLs, clientResponse, lastObserved, served>>

(***************************************************************************)
(* Specification of the chat handler.  The engine starts with the history  *)
(* of earlier requests: none, or the keys of channel 0 circuit-broken at   *)
(* its first base URL.                                                     *)
(***************************************************************************)
EmptyManager == [keyMetrics |-> EmptyMap, nextRequestID |-> 0, store |-> EmptyStore]

\* The managers in M after one more request on (baseURL, apiKey) that was
\* reserved and finalized as a failure.
AfterFailure(M, baseURL, apiKey) ==
    {RecordRequestFinalizeFailure(r, baseURL, apiKey, r.nextRequestID) :
        r \in {RecordRequestConnected(m, baseURL, apiKey) : m \in M}}

RECURSIVE AfterFailures(_, _, _, _)
AfterFailures(M, baseURL, apiKey, n) ==
    IF n = 0 THEN M
    ELSE AfterFailures(AfterFailure(M, baseURL, apiKey), baseURL, apiKey, n - 1)

\* No history; key k1 circuit-broken at u1; keys k1 and k2 circuit-broken
\* at u1.
Histories ==
    LET one == AfterFailures({EmptyManager}, "u1", "k1", MinWindowSize)
        two == AfterFailures(one, "u1", "k2", MinWindowSize)
    IN {EmptyManager} \cup one \cup two

InitHandler ==
    /\ now = 0
    /\ ticks = 0
    /\ windowSize = MinWindowSize
    /\ InitSQLiteStore(DefaultBatchSize)
    /\ stream = NoStream
    /\ chatUpstream = HandlerChatUpstream
    /\ \E h \in Histories :
          /\ keyMetrics = h.keyMetrics
          /\ nextRequestID = h.nextRequestID
          /\ store = h.store
    /\ inflight = {}
    /\ pc = "idle"
    /\ req = NoRequest
    /\ ctxDone = FALSE
    /\ mc = IdleMC
    /\ ex = IdleEX
    /\ traceAffinity \in {EmptyMap} \cup
          {SetTraceAffinity(EmptyMap, userID, ActiveChannels[i]) : i \in DOMAIN ActiveChannels}
    /\ failedKeysCache = <<>>
    /\ malformedURLs \in {{}, {"u2"}}
    /\ clientResponse = NoResponse
    /\ lastObserved = NoResponse
    /\ served = 0
    /\ selection = NoSelection
    /\ affinityFor = EmptyMap

HandlerFailoverStatus == \E resp \in FailoverResponses : ExecFailoverStatus(resp)

HandlerTerminalStatus == \E resp \in TerminalResponses : ExecTerminalStatus(resp)

NextHandler ==
    \/ HandlerStart
    \/ ClientCancel
    \/ MultiChannelExhausted
    \/ MultiChannelCancelled
    \/ MultiChannelSelect
    \/ ExecExhausted
    \/ ExecNextURL
    \/ ExecSkipSuspended
    \/ ExecBuildFailed
    \/ ExecSend
    \/ ExecSendCancelled
    \/ ExecSendError
    \/ HandlerFailoverStatus
    \/ HandlerTerminalStatus
    \/ ExecSuccessStatus
    \/ HandleStreamSuccess
    \/ HandleSuccessOK
    \/ HandleSuccessCancelled
    \/ HandleSuccessReadError
    \/ HandleSuccessInvalidBody

SpecHandler == InitHandler /\ [][NextHandler]_vars

(***************************************************************************)
(* The handler of the Gemini endpoint calls the TryUpstreamWithAllKeys of  *)
(* upstream_failover.go.  That executor differs from the one above where   *)
(* the request cannot be built: it records a failure for the key and goes  *)
(* on with the next key; and it knows no ErrInvalidResponseBody.  The      *)
(* outcomes of the Gemini handleSuccess are those of the chat one: a       *)
(* stream always returns a nil error, a failed read answers 500.           *)
(***************************************************************************)
LegacyBuildFailed ==
    /\ AttemptProceeds
    /\ BuildFails(currentBaseURL)
    /\ Becomes(RecordFailure(Manager, currentBaseURL, nextKey))
    /\ ex' = [ex EXCEPT !.failedKeys = @ \cup {nextKey}, !.attempt = @ + 1]
    /\ UNCHANGED <<schedulerVars, now, ticks, inflight, pc, req, ctxDone, mc,
                   traceAffinity, failedKeysCache, malformedURLs,
                   clientResponse, lastObserved, served>>

NextLegacy ==
    \/ HandlerStart
    \/ ClientCancel
    \/ MultiChannelExhausted
    \/ MultiChannelCancelled
    \/ MultiChannelSelect
    \/ ExecExhausted
    \/ ExecNextURL
    \/ ExecSkipSuspended
    \/ LegacyBuildFailed
    \/ ExecSend
    \/ ExecSendCancelled
    \/ ExecSendError
    \/ HandlerFailoverStatus
    \/ HandlerTerminalStatus
    \/ ExecSuccessStatus
    \/ HandleStreamSuccess
    \/ HandleSuccessOK
    \/ HandleSuccessCancelled
    \/ HandleSuccessReadError

SpecLegacy == InitHandler /\ [][NextLegacy]_vars

(***************************************************************************)
(* The channel scheduler of the chat endpoint under configuration changes. *)
(* Channel A has the default priority (its index), the keyless channel C   *)
(* comes before channel B.  A call of SelectChannel is one step; its       *)
(* result stays in selection until the caller has taken it, and the        *)
(* configuration changes between calls.                                    *)
(***************************************************************************)
MaxSchedulerTicks == 1

\* The duration passed to SetChatChannelPromotion, and the clock advance.
PromotionMinutes == 1

SchedulerChatUpstream ==
    << UpstreamConfig("A", "openai", <<"u1">>, <<"k1">>, "active", 0, NoTime),
       UpstreamConfig("B", "openai", <<"u2">>, <<"k1">>, "active", 2, NoTime),
       UpstreamConfig("C", "openai", <<"u1">>, <<>>, "active", 1, NoTime) >>

\* No history, or a window full of failures for channel A.
SchedulerHistories ==
    {EmptyManager} \cup AfterFailures({EmptyManager}, "u1", "k1", MinWindowSize)

\* failedChannels of a request that has failed on at most one channel.
FailedChannelSets == {{}} \cup {{i} : i \in ChannelIndexes}

InitScheduler ==
    /\ now = 0
    /\ ticks = 0
    /\ windowSize = MinWindowSize
    /\ InitSQLiteStore(DefaultBatchSize)
    /\ stream = NoStream
    /\ \E h \in SchedulerHistories :
          /\ keyMetrics = h.keyMetrics
          /\ nextRequestID = h.nextRequestID
          /\ store = h.store
    /\ inflight = {}
    /\ pc = "idle"
    /\ req = NoRequest
    /\ ctxDone = FALSE
    /\ mc = IdleMC
    /\ ex = IdleEX
    /\ traceAffinity = EmptyMap
    /\ failedKeysCache = <<>>
    /\ malformedURLs = {}
    /\ clientResponse = NoResponse
    /\ lastObserved = NoResponse
    /\ served = 0
    /\ chatUpstream = SchedulerChatUpstream
    /\ selection = NoSelection
    /\ affinityFor = EmptyMap

\* What no scheduler step changes.
schedulerFrame ==
    <<metricsVars, inflight, pc, req, ctxDone, mc, ex, failedKeysCache,
      malformedURLs, clientResponse, lastObserved, served>>

SetChatChannelStatus ==
    /\ selection = NoSelection
    /\ \E index \in ChannelIndexes, status \in {"active", "suspended", "disabled"} :
          chatUpstream' =
              [chatUpstream EXCEPT
                  ![index + 1].Status = status,
                  ![index + 1].PromotionUntil =
                      IF status = "suspended" THEN NoTime ELSE @]
    /\ UNCHANGED <<schedulerFrame, now, ticks, traceAffinity, selection, affinityFor>>

\* duration <= 0 ends the promotion of the channel; a positive duration
\* ends every other promotion and starts this one.
SetChatChannelPromotion ==
    /\ selection = NoSelection
    /\ \E index \in ChannelIndexes, duration \in {0, PromotionMinutes} :
          chatUpstream' =
              IF duration <= 0
              THEN [chatUpstream EXCEPT ![index + 1].PromotionUntil = NoTime]
              ELSE [i \in DOMAIN chatUpstream |->
                       [chatUpstream[i] EXCEPT
                           !.PromotionUntil =
                               IF i = index + 1 THEN now + duration ELSE NoTime]]
    /\ UNCHANGED <<schedulerFrame, now, ticks, traceAffinity, selection, affinityFor>>

\* An update that carries promotionUntil only: the deadline is stored as
\* given, the other channels are left alone.
UpdateChatUpstream ==
    /\ selection = NoSelection
    /\ \E index \in ChannelIndexes :
          chatUpstream' =
              [chatUpstream EXCEPT ![index + 1].PromotionUntil = now + PromotionMinutes]
    /\ UNCHANGED <<schedulerFrame, now, ticks, traceAffinity, selection, affinityFor>>

\* The channels after index move down by one; the affinity table is not
\* touched.
RemoveChatUpstream ==
    /\ selection = NoSelection
    /\ \E index \in ChannelIndexes :
          chatUpstream' = RemoveAt(chatUpstream, index + 1)
    /\ UNCHANGED <<schedulerFrame, now, ticks, traceAffinity, selection, affinityFor>>

\* A request of the user succeeded on a channel: SetTraceAffinity.
\* affinityFor remembers which channel that was.
SchedulerSetAffinity ==
    /\ selection = NoSelection
    /\ \E channelIndex \in ChannelIndexes :
          /\ traceAffinity' = SetTraceAffinity(traceAffinity, userID, channelIndex)
          /\ affinityFor' =
                 [x \in DOMAIN affinityFor \cup {compositeKey(userID)} |->
                     IF x = compositeKey(userID) THEN Upstream(channelIndex).Name
                     ELSE affinityFor[x]]
    /\ UNCHANGED <<schedulerFrame, now, ticks, chatUpstream, selection>>

SchedulerTick ==
    /\ selection = NoSelection
    /\ Tick(PromotionMinutes, MaxSchedulerTicks)
    /\ UNCHANGED <<metricsVars, inflight, handlerVars, schedulerVars>>

\* One call of SelectChannel.
SchedulerSelect ==
    /\ selection = NoSelection
    /\ \E user \in {"", userID}, failedChannels \in FailedChannelSets :
          selection' =
              [ userID         |-> user,
                failedChannels |-> failedChannels,
                ChannelIndex   |-> SelectChannel(user, failedChannels).ChannelIndex,
                Reason         |-> SelectChannel(user, failedChannels).Reason ]
    /\ UNCHANGED <<schedulerFrame, now, ticks, traceAffinity, chatUpstream, affinityFor>>

\* The caller has taken the result.
SchedulerReturn ==
    /\ selection # NoSelection
    /\ selection' = NoSelection
    /\ UNCHANGED <<schedulerFrame, now, ticks, traceAffinity, chatUpstream, affinityFor>>

NextScheduler ==
    \/ SetChatChannelStatus
    \/ SetChatChannelPromotion
    \/ UpdateChatUpstream
    \/ RemoveChatUpstream
    \/ SchedulerSetAffinity
    \/ SchedulerTick
    \/ SchedulerSelect
    \/ SchedulerReturn

SpecScheduler == InitScheduler /\ [][NextScheduler]_vars

(***************************************************************************)
(* Channel health as SelectChannel sees it, for a channel with two base    *)
(* URLs.  The executor records the outcome of an attempt on the base URL   *)
(* it used; SelectChannel asks IsChannelHealthyWithKeys for                *)
(* upstream.BaseURL, the first of the base URLs.                           *)
(***************************************************************************)
MaxHealthRequests == 4

HealthChatUpstream ==
    << UpstreamConfig("A", "openai", <<"u1", "u2">>, <<"k1">>, "active", 1, NoTime),
       UpstreamConfig("B", "openai", <<"u1">>, <<"k2">>, "active", 2, NoTime) >>

InitHealth ==
    /\ now = 0
    /\ ticks = 0
    /\ windowSize = MinWindowSize
    /\ InitSQLiteStore(DefaultBatchSize)
    /\ stream = NoStream
    /\ keyMetrics = EmptyMap
    /\ nextRequestID = 0
    /\ store = EmptyStore
    /\ inflight = {}
    /\ pc = "idle"
    /\ req = NoRequest
    /\ ctxDone = FALSE
    /\ mc = IdleMC
    /\ ex = IdleEX
    /\ traceAffinity = EmptyMap
    /\ failedKeysCache = <<>>
    /\ malformedURLs = {}
    /\ clientResponse = NoResponse
    /\ lastObserved = NoResponse
    /\ served = 0
    /\ chatUpstream = HealthChatUpstream
    /\ selection = NoSelection
    /\ affinityFor = EmptyMap

\* An attempt on a base URL and key of a channel ended in success.
HealthRecordSuccess ==
    /\ selection = NoSelection
    /\ SumRequestCount(keyMetrics, DOMAIN keyMetrics) < MaxHealthRequests
    /\ \E i \in ChannelIndexes :
          \E u \in Range(Upstream(i).BaseURLs), k \in Range(Upstream(i).APIKeys) :
              Becomes(RecordSuccess(Manager, u, k))
    /\ UNCHANGED <<schedulerVars, now, ticks, inflight, handlerVars>>

\* An attempt on a base URL and key of a channel ended in failure.
HealthRecordFailure ==
    /\ selection = NoSelection
    /\ SumRequestCount(keyMetrics, DOMAIN keyMetrics) < MaxHealthRequests
    /\ \E i \in ChannelIndexes :
          \E u \in Range(Upstream(i).BaseURLs), k \in Range(Upstream(i).APIKeys) :
              Becomes(RecordFailure(Manager, u, k))
    /\ UNCHANGED <<schedulerVars, now, ticks, inflight, handlerVars>>

NextHealth ==
    \/ HealthRecordSuccess
    \/ HealthRecordFailure
    \/ SchedulerSelect
    \/ SchedulerReturn

SpecHealth == InitHealth /\ [][NextHealth]_vars

(***************************************************************************)
(* Deleting a channel: the channel leaves the configuration, then          *)
(* ChannelScheduler.DeleteChannelMetrics removes the rows only that        *)
(* channel used.                                                           *)
(***************************************************************************)
\* The configuration and the idle handler a specification starts from.
InitConfiguredStore(upstreams, batchSize) ==
    /\ now = 0
    /\ ticks = 0
    /\ windowSize = MinWindowSize
    /\ InitSQLiteStore(batchSize)
    /\ stream = NoStream
    /\ keyMetrics = EmptyMap
    /\ nextRequestID = 0
    /\ store = EmptyStore
    /\ inflight = {}
    /\ pc = "idle"
    /\ req = NoRequest
    /\ ctxDone = FALSE
    /\ mc = IdleMC
    /\ ex = IdleEX
    /\ traceAffinity = EmptyMap
    /\ failedKeysCache = <<>>
    /\ malformedURLs = {}
    /\ clientResponse = NoResponse
    /\ lastObserved = NoResponse
    /\ served = 0
    /\ chatUpstream = upstreams
    /\ selection = NoSelection
    /\ affinityFor = EmptyMap

InitConfigured(upstreams) == InitConfiguredStore(upstreams, DefaultBatchSize)

\* APIKeys followed by HistoricalAPIKeys.
AllKeysOf(upstream) == upstream.APIKeys \o upstream.HistoricalAPIKeys

collectUsedCombinations_None(upstreams) == {}

\* collectUsedCombinations: "baseURL|apiKey" for every base URL and every
\* active or historical key of every channel of the configuration.
collectUsedCombinations(upstreams) ==
    UNION {{baseURL \o "|" \o apiKey :
                baseURL \in Range(upstreams[i].BaseURLs),
                apiKey \in Range(AllKeysOf(upstreams[i]))} : i \in DOMAIN upstreams}

\* MetricsManager.DeleteByMetricsKeys: the rows leave the memory table and
\* their records leave the persistence store.
DeleteByMetricsKeys(m, metricsKeys) ==
    IF metricsKeys = {} THEN m
    ELSE [m EXCEPT
            !.keyMetrics = [mk \in DOMAIN m.keyMetrics \ metricsKeys |-> m.keyMetrics[mk]],
            !.store = [mk \in DOMAIN m.store |->
                          IF mk \in metricsKeys THEN <<>> ELSE m.store[mk]]]

\* ChannelScheduler.DeleteChannelMetrics on the channel upstream, with the
\* configuration upstreams as GetConfig returns it.
DeleteChannelMetrics(m, upstream, upstreams) ==
    LET usedCombinations == collectUsedCombinations(upstreams)
        exclusiveMetricsKeys ==
            {generateMetricsKey(p[1], p[2]) :
                p \in {q \in Range(upstream.BaseURLs) \X Range(AllKeysOf(upstream)) :
                          (q[1] \o "|" \o q[2]) \notin usedCombinations}}
    IN DeleteByMetricsKeys(m, exclusiveMetricsKeys)

MaxDeleteRequests == 2

\* A has the row (u1, k1) in common with B and the row (u2, k2), of its
\* historical key, in common with C.
DeleteChatUpstream ==
    << [UpstreamConfig("A", "openai", <<"u1", "u2">>, <<"k1">>, "active", 1, NoTime)
           EXCEPT !.HistoricalAPIKeys = <<"k2">>],
       UpstreamConfig("B", "openai", <<"u1">>, <<"k1">>, "active", 2, NoTime),
       UpstreamConfig("C", "openai", <<"u2">>, <<"k2">>, "active", 3, NoTime) >>

InitDelete == InitConfigured(DeleteChatUpstream)

DeleteReserve == \E u \in BaseURLs, k \in APIKeys : Reserve(u, k, MaxDeleteRequests)
DeleteFinalizeSuccess == \E r \in inflight : FinalizeSuccess(r)
DeleteFinalizeFailure == \E r \in inflight : FinalizeFailure(r)

\* The channel at index is removed from the configuration and its metrics
\* are deleted.
DeleteChannel ==
    /\ \E index \in ChannelIndexes :
          /\ chatUpstream' = RemoveAt(chatUpstream, index + 1)
          /\ Becomes(DeleteChannelMetrics(Manager, Upstream(index), chatUpstream'))
    /\ UNCHANGED <<selection, affinityFor, now, ticks, inflight, handlerVars>>

NextDelete ==
    \/ DeleteReserve
    \/ DeleteFinalizeSuccess
    \/ DeleteFinalizeFailure
    \/ DeleteChannel

SpecDelete == InitDelete /\ [][NextDelete]_vars

(***************************************************************************)
(* Specification of the Failed-Key cache: keys marked failed under two     *)
(* client API types, the clock, and the cleaner.                           *)
(***************************************************************************)
MaxFailedKeyMarks == 4
MaxFailedKeyTicks == 5

FailedKeyAPITypes == {"Chat", "Messages"}

InitFailedKeys == InitConfigured(HandlerChatUpstream)

TotalFailureCount ==
    LET RECURSIVE Sum(_)
        Sum(S) == IF S = {} THEN 0
                  ELSE LET ck == CHOOSE x \in S : TRUE
                       IN failedKeysCache[ck].FailureCount + Sum(S \ {ck})
    IN Sum(DOMAIN failedKeysCache)

FailedKeysFrame ==
    <<metricsVars, schedulerVars, inflight, pc, req, ctxDone, mc, ex,
      traceAffinity, malformedURLs, clientResponse, lastObserved, served>>

FailedKeysMark ==
    /\ TotalFailureCount < MaxFailedKeyMarks
    /\ \E apiKey \in APIKeys, type \in FailedKeyAPITypes :
          failedKeysCache' = MarkKeyAsFailedAt(failedKeysCache, apiKey, type, now)
    /\ UNCHANGED <<FailedKeysFrame, now, ticks>>

FailedKeysCleanup ==
    /\ failedKeysCache' = cleanupExpiredFailures(failedKeysCache, now)
    /\ UNCHANGED <<FailedKeysFrame, now, ticks>>

FailedKeysTick ==
    /\ Tick(1, MaxFailedKeyTicks)
    /\ UNCHANGED <<FailedKeysFrame, failedKeysCache>>

NextFailedKeys ==
    \/ FailedKeysMark
    \/ FailedKeysCleanup
    \/ FailedKeysTick

SpecFailedKeys == InitFailedKeys /\ [][NextFailedKeys]_vars

(***************************************************************************)
(* Specification of the channel list: channels are added, renamed and      *)
(* removed.                                                                *)
(***************************************************************************)
MaxChannels == 3

ChannelNames == {"A", "B", "C"}

InitNames == InitConfigured(<<>>)

\* AddChatUpstream: refused when a channel of that name exists; an empty
\* status becomes active.
AddChatUpstream ==
    /\ selection = NoSelection
    /\ Len(chatUpstream) < MaxChannels
    /\ \E name \in ChannelNames, status \in {"", "suspended", "disabled"} :
          /\ \A i \in DOMAIN chatUpstream : chatUpstream[i].Name # name
          /\ chatUpstream' =
                Append(chatUpstream,
                       UpstreamConfig(name, "openai", <<"u1">>, <<"k1">>,
                                      IF status = "" THEN "active" ELSE status,
                                      0, NoTime))
    /\ UNCHANGED <<schedulerFrame, now, ticks, traceAffinity, selection, affinityFor>>

\* UpdateChatUpstream with an update that carries a name only.
UpdateChatUpstreamName ==
    /\ selection = NoSelection
    /\ \E index \in ChannelIndexes, name \in ChannelNames :
          chatUpstream' = [chatUpstream EXCEPT ![index + 1].Name = name]
    /\ UNCHANGED <<schedulerFrame, now, ticks, traceAffinity, selection, affinityFor>>

NextNames ==
    \/ AddChatUpstream
    \/ UpdateChatUpstreamName
    \/ RemoveChatUpstream

SpecNames == InitNames /\ [][NextNames]_vars

(***************************************************************************)
(* The SQLite store: AddRecord callers, the asynchronous flush worker,     *)
(* flushLoop, DeleteRecordsByMetricsKeys and Close as goroutines.          *)
(* bufferMu guards each step on the buffer; flushMu is held from the step  *)
(* that takes the buffer to the step that ends the insert.                 *)
(***************************************************************************)
MaxBufferedBatches == 10

storeFrame ==
    <<now, ticks, windowSize, keyMetrics, nextRequestID, store, inflight,
      handlerVars, schedulerVars, stream>>

StoreRecord(id, metricsKey) == [id |-> id, MetricsKey |-> metricsKey]

\* batchInsertRecords succeeded: one transaction adds the records.
Inserted(st, records) == [st EXCEPT !.rows = @ \o records]

\* batchInsertRecords failed: the records go back in front of the buffer
\* unless the buffer holds batchSize*10 records or more.
InsertFailed(st, records) ==
    IF Len(st.writeBuffer) < st.batchSize * MaxBufferedBatches
    THEN [st EXCEPT !.writeBuffer = records \o @]
    ELSE st

\* The end of flush() for the records taken: the insert succeeds or fails;
\* on a closed database it fails.
AfterInsert(st, records, ok) ==
    IF ok /\ ~st.dbClosed THEN Inserted(st, records) ELSE InsertFailed(st, records)

\* AddRecord up to the release of bufferMu.
StoreAddRecord(metricsKeys, bound) ==
    /\ go.adder = "idle"
    /\ sq.calls < bound
    /\ \E metricsKey \in metricsKeys :
          LET record == StoreRecord(sq.calls + 1, metricsKey)
              buffer == Append(sq.writeBuffer, record)
          IN IF sq.closed
             THEN /\ sq' = [sq EXCEPT !.calls = @ + 1]
                  /\ go' = go
             ELSE /\ sq' = [sq EXCEPT !.calls = @ + 1, !.writeBuffer = buffer]
                  /\ go' = [go EXCEPT !.adder =
                                IF Len(buffer) >= sq.batchSize THEN "unlocked" ELSE "idle"]
    /\ UNCHANGED <<storeFrame, doomed>>

StoreSchedule_NoCAS ==
    /\ go.adder = "unlocked"
    /\ go' = [go EXCEPT !.adder = "idle", !.worker = "start"]
    /\ sq' = [sq EXCEPT !.flushing = TRUE, !.asyncFlushWg = @ + 1]
    /\ UNCHANGED <<now, ticks, windowSize, keyMetrics, nextRequestID, store,
                   inflight, handlerVars, schedulerVars, doomed, stream>>

\* AddRecord with shouldFlush: the compare-and-swap on flushing, and the
\* start of the worker when it wins.
StoreSchedule ==
    /\ go.adder = "unlocked"
    /\ IF sq.flushing
       THEN /\ go' = [go EXCEPT !.adder = "idle"]
            /\ sq' = sq
       ELSE /\ go' = [go EXCEPT !.adder = "idle", !.worker = "start"]
            /\ sq' = [sq EXCEPT !.flushing = TRUE, !.asyncFlushWg = @ + 1]
    /\ UNCHANGED <<storeFrame, doomed>>

\* The worker takes flushMu and flush() takes the buffer; with an empty
\* buffer the worker is done.
WorkerTake ==
    /\ go.worker = "start"
    /\ sq.flushMu = "free"
    /\ IF sq.writeBuffer = <<>>
       THEN /\ sq' = [sq EXCEPT !.flushing = FALSE, !.asyncFlushWg = @ - 1]
            /\ go' = [go EXCEPT !.worker = "none"]
       ELSE /\ sq' = [sq EXCEPT !.flushMu = "worker", !.writeBuffer = <<>>]
            /\ go' = [go EXCEPT !.worker = "insert", !.records = sq.writeBuffer]
    /\ UNCHANGED <<storeFrame, doomed>>

WorkerInsert ==
    /\ go.worker = "insert"
    /\ \E ok \in BOOLEAN :
          sq' = [AfterInsert(sq, go.records, ok) EXCEPT
                    !.flushMu = "free", !.flushing = FALSE, !.asyncFlushWg = @ - 1]
    /\ go' = [go EXCEPT !.worker = "none", !.records = <<>>]
    /\ UNCHANGED <<storeFrame, doomed>>

\* flushLoop on its ticker.
LoopTake ==
    /\ go.loop = "select"
    /\ sq.flushMu = "free"
    /\ sq.writeBuffer # <<>>
    /\ sq' = [sq EXCEPT !.flushMu = "loop", !.writeBuffer = <<>>]
    /\ go' = [go EXCEPT !.loop = "insert", !.records = sq.writeBuffer]
    /\ UNCHANGED <<storeFrame, doomed>>

LoopInsert ==
    /\ go.loop = "insert"
    /\ \E ok \in BOOLEAN :
          sq' = [AfterInsert(sq, go.records, ok) EXCEPT !.flushMu = "free"]
    /\ go' = [go EXCEPT !.loop = "select", !.records = <<>>]
    /\ UNCHANGED <<storeFrame, doomed>>

\* flushLoop on stopCh: the last flush, then the loop returns.
LoopStop ==
    /\ go.loop = "select"
    /\ sq.stopCh
    /\ sq.flushMu = "free"
    /\ \E ok \in BOOLEAN :
          sq' = AfterInsert([sq EXCEPT !.writeBuffer = <<>>], sq.writeBuffer, ok)
    /\ go' = [go EXCEPT !.loop = "done"]
    /\ UNCHANGED <<storeFrame, doomed>>

\* DELETE FROM request_records WHERE metrics_key IN metricsKeys.
DeleteRows(st, metricsKeys) ==
    IF st.dbClosed THEN st
    ELSE [st EXCEPT !.rows = KeepNot(@, {r \in Range(@) : r.MetricsKey \in metricsKeys})]

\* The ids of the records of these identities that AddRecord had accepted
\* when the delete call took the buffer; none when the DELETE fails on a
\* closed database.
AcceptedIds(metricsKeys) ==
    IF sq.dbClosed THEN {}
    ELSE {r.id : r \in {x \in Range(sq.rows) \cup Range(go.records) :
                            x.MetricsKey \in metricsKeys}}

\* DeleteRecordsByMetricsKeys: flushMu, flush() of the buffer as it is,
\* the DELETE, and the release of flushMu.
StoreDelete(metricsKeys) ==
    /\ go.deleter = "idle"
    /\ sq.flushMu = "free"
    /\ IF sq.writeBuffer = <<>>
       THEN /\ sq' = DeleteRows(sq, metricsKeys)
            /\ go' = go
            /\ doomed' = doomed \cup AcceptedIds(metricsKeys)
       ELSE /\ sq' = [sq EXCEPT !.flushMu = "deleter", !.writeBuffer = <<>>]
            /\ go' = [go EXCEPT !.deleter = "insert", !.records = sq.writeBuffer]
            /\ doomed' = doomed
    /\ UNCHANGED storeFrame

StoreDeleteInsert(metricsKeys) ==
    /\ go.deleter = "insert"
    /\ \E ok \in BOOLEAN :
          sq' = [DeleteRows(AfterInsert(sq, go.records, ok), metricsKeys) EXCEPT
                    !.flushMu = "free"]
    /\ go' = [go EXCEPT !.deleter = "idle", !.records = <<>>]
    /\ doomed' = doomed \cup AcceptedIds(metricsKeys)
    /\ UNCHANGED storeFrame

\* Close: closed is set and stopCh is closed.
CloseMark ==
    /\ go.closer = "idle"
    /\ sq' = [sq EXCEPT !.closed = TRUE, !.stopCh = TRUE]
    /\ go' = [go EXCEPT !.closer = "wg"]
    /\ UNCHANGED <<storeFrame, doomed>>

\* wg.Wait() returns once flushLoop has returned.
CloseWaitLoop ==
    /\ go.closer = "wg"
    /\ go.loop = "done"
    /\ go' = [go EXCEPT !.closer = "asyncFlushWg"]
    /\ UNCHANGED <<storeFrame, sq, doomed>>

\* asyncFlushWg.Wait() returns on a zero counter, then db.Close().
CloseDB ==
    /\ go.closer = "asyncFlushWg"
    /\ sq.asyncFlushWg = 0
    /\ sq' = [sq EXCEPT !.dbClosed = TRUE]
    /\ go' = [go EXCEPT !.closer = "done"]
    /\ UNCHANGED <<storeFrame, doomed>>

(***************************************************************************)
(* Specification of the store under additions, deletion and Close.         *)
(***************************************************************************)
MaxStoreRecords == 3

StoreMetricsKeys == {"mk1", "mk2"}
DeletedMetricsKeys == {"mk1"}

InitStore == InitConfiguredStore(<<>>, DefaultBatchSize)

StoreAdd == StoreAddRecord(StoreMetricsKeys, MaxStoreRecords)
DeleteRecordsByMetricsKeys == StoreDelete(DeletedMetricsKeys)
DeleteRecordsInsert == StoreDeleteInsert(DeletedMetricsKeys)

NextStore ==
    \/ StoreAdd
    \/ StoreSchedule
    \/ WorkerTake
    \/ WorkerInsert
    \/ LoopTake
    \/ LoopInsert
    \/ LoopStop
    \/ DeleteRecordsByMetricsKeys
    \/ DeleteRecordsInsert
    \/ CloseMark
    \/ CloseWaitLoop
    \/ CloseDB

SpecStore == InitStore /\ [][NextStore]_vars

(***************************************************************************)
(* Specification of the write buffer under failing inserts: batches of     *)
(* one record.                                                             *)
(***************************************************************************)
MaxFlushRecords == 11
FlushBatchSize == 1

InitFlush == InitConfiguredStore(<<>>, FlushBatchSize)

FlushAdd == StoreAddRecord({"mk1"}, MaxFlushRecords)

NextFlush ==
    \/ FlushAdd
    \/ StoreSchedule
    \/ WorkerTake
    \/ WorkerInsert
    \/ LoopTake
    \/ LoopInsert

SpecFlush == InitFlush /\ [][NextFlush]_vars

(***************************************************************************)
(* Specification of the metrics identity: reservations and their          *)
(* finalizations on base URLs and keys that hold the separator "|".        *)
(***************************************************************************)
MaxIdentityRequests == 3

InitIdentity == InitEngine(MinWindowSize)

IdentityReserve ==
    \E u \in IdentityBaseURLs, k \in IdentityAPIKeys : Reserve(u, k, MaxIdentityRequests)
IdentityFinalizeSuccess == \E r \in inflight : FinalizeSuccess(r)
IdentityFinalizeFailure == \E r \in inflight : FinalizeFailure(r)

NextIdentity ==
    \/ IdentityReserve
    \/ IdentityFinalizeSuccess
    \/ IdentityFinalizeFailure

SpecIdentity == InitIdentity /\ [][NextIdentity]_vars

(***************************************************************************)
(* Specification of the request handler with channels being deleted while  *)
(* a request is between two runs of the executor.                          *)
(***************************************************************************)
\* The apiType RemoveChatUpstream hands to clearFailedKeysForUpstream.
RemovedAPIType == "chat"

\* DeleteUpstream of the channel handlers: RemoveChatUpstream(index).
DeleteUpstream ==
    /\ pc = "select"
    /\ \E index \in ChannelIndexes :
          /\ chatUpstream' = RemoveAt(chatUpstream, index + 1)
          /\ failedKeysCache' =
                clearFailedKeysForUpstream(failedKeysCache, Upstream(index),
                                           RemovedAPIType)
    /\ UNCHANGED <<now, ticks, metricsVars, inflight, pc, req, ctxDone, mc, ex,
                   traceAffinity, malformedURLs, clientResponse, lastObserved,
                   served, selection, affinityFor>>

NextReconfig ==
    \/ NextHandler
    \/ DeleteUpstream

SpecReconfig == InitHandler /\ [][NextReconfig]_vars

(***************************************************************************)
(* Specification of the request handler with the metrics of single keys    *)
(* being reset (ResetKeyMetrics of the scheduler) while an attempt waits    *)
(* for the answer of the upstream.                                         *)
(***************************************************************************)
\* The key whose metrics the operator resets.
ResetTargets == {<<"u1", "k1">>}

\* ResetKeyMetrics(baseURL, apiKey, kind) on the key of the attempt in flight.
ResetKeyMetrics ==
    /\ pc = "sent"
    /\ <<currentBaseURL, ex.apiKey>> \in ResetTargets
    /\ generateMetricsKey(currentBaseURL, ex.apiKey) \in DOMAIN keyMetrics
    /\ Becomes(ResetKey(Manager, currentBaseURL, ex.apiKey))
    /\ UNCHANGED <<schedulerVars, now, ticks, inflight, pc, req, ctxDone, mc, ex,
                   traceAffinity, failedKeysCache, malformedURLs, clientResponse,
                   lastObserved, served>>

NextActive ==
    \/ NextHandler
    \/ ResetKeyMetrics

SpecActive == InitHandler /\ [][NextActive]_vars

(***************************************************************************)
(* Specification of the Claude-to-Chat stream translation: the upstream    *)
(* body is a sequence of lines ended by a newline and a remainder without  *)
(* one; streamClaudeToChat works through the lines as Read delivers them.  *)
(***************************************************************************)
MaxStreamLines == 3

\* A line of the upstream body: what stands before the payload, and for a
\* data line the payload ("[DONE]" or the type of the JSON event).
SSELine(prefix, payload) == [prefix |-> prefix, payload |-> payload]

SSELines ==
    { SSELine("event: ", "message_delta"),
      SSELine("data: ", "[DONE]"),
      SSELine("data: ", "content_block_delta"),
      SSELine("data: ", "message_delta"),
      SSELine("data: ", "message_start") }

\* The frames written to the client.
DoneFrame == "data: [DONE]"
ChunkFrame == "data: chat.completion.chunk"
StopFrame == "data: chat.completion.chunk stop"

StreamBodies ==
    UNION {[1 .. n -> SSELines] : n \in 0 .. MaxStreamLines}

InitStream ==
    /\ now = 0
    /\ ticks = 0
    /\ windowSize = MinWindowSize
    /\ InitSQLiteStore(DefaultBatchSize)
    /\ keyMetrics = EmptyMap
    /\ nextRequestID = 0
    /\ store = EmptyStore
    /\ inflight = {}
    /\ InitHandlerIdle
    /\ \E body \in StreamBodies, rest \in {<<>>, <<SSELine("data: ", "[DONE]")>>} :
          stream = [pc |-> "read", lines |-> body, remainder |-> rest,
                    written |-> <<>>, doneSent |-> FALSE]

streamFrame ==
    <<now, ticks, windowSize, keyMetrics, nextRequestID, store, storeVars,
      inflight, handlerVars, schedulerVars>>

\* The body of the loop over the lines.
translateLine(st, line) ==
    IF line.prefix # "data: " THEN st
    ELSE IF line.payload = "[DONE]"
         THEN [st EXCEPT !.written = Append(@, DoneFrame), !.doneSent = TRUE]
    ELSE IF line.payload = "content_block_delta"
         THEN [st EXCEPT !.written = Append(@, ChunkFrame)]
    ELSE IF line.payload = "message_delta"
         THEN [st EXCEPT !.written = Append(@, StopFrame)]
    ELSE st

\* Read delivers the next complete line.
StreamLine ==
    /\ stream.pc = "read"
    /\ stream.lines # <<>>
    /\ stream' = [translateLine(stream, Head(stream.lines))
                    EXCEPT !.lines = Tail(stream.lines)]
    /\ UNCHANGED streamFrame

\* Read reports the end of the body: the remainder is left unread, and
\* [DONE] is written if none was.
StreamReturn ==
    /\ stream.pc = "read"
    /\ stream.lines = <<>>
    /\ stream' = [stream EXCEPT
                    !.pc = "returned",
                    !.written = IF stream.doneSent THEN @ ELSE Append(@, DoneFrame)]
    /\ UNCHANGED streamFrame

NextStream ==
    \/ StreamLine
    \/ StreamReturn

SpecStream == InitStream /\ [][NextStream]_vars

(***************************************************************************)
(* Specification of the stale-key sweep: requests are counted as active,   *)
(* reserve a slot when connected and are finalized, while the clock moves  *)
(* and the hourly sweep runs.  A started request that is not yet connected *)
(* is held with rid 0.                                                     *)
(***************************************************************************)
MaxStaleRequests == 2
MaxStaleTicks == 2

StaleKeys == {"k1", "k2"}

InitStale == InitEngine(MinWindowSize)

StaleStart ==
    /\ nextRequestID + Cardinality({r \in inflight : r.rid = 0}) < MaxStaleRequests
    /\ \E k \in StaleKeys :
          /\ [rid |-> 0, u |-> "u1", k |-> k] \notin inflight
          /\ Becomes(RecordRequestStart(Manager, "u1", k))
          /\ inflight' = inflight \cup {[rid |-> 0, u |-> "u1", k |-> k]}
    /\ UNCHANGED <<now, ticks, handlerVars, schedulerVars>>

StaleConnected ==
    /\ \E r \in inflight :
          /\ r.rid = 0
          /\ Becomes(RecordRequestConnected(Manager, r.u, r.k))
          /\ inflight' = (inflight \ {r}) \cup {[r EXCEPT !.rid = nextRequestID + 1]}
    /\ UNCHANGED <<now, ticks, handlerVars, schedulerVars>>

\* Finalize and the deferred RecordRequestEnd of the request.
StaleFinalizeSuccess ==
    /\ \E r \in inflight :
          /\ r.rid > 0
          /\ Becomes(RecordRequestEnd(
                 RecordRequestFinalizeSuccess(Manager, r.u, r.k, r.rid), r.u, r.k))
          /\ inflight' = inflight \ {r}
    /\ UNCHANGED <<now, ticks, handlerVars, schedulerVars>>

StaleFinalizeFailure ==
    /\ \E r \in inflight :
          /\ r.rid > 0
          /\ Becomes(RecordRequestEnd(
                 RecordRequestFinalizeFailure(Manager, r.u, r.k, r.rid), r.u, r.k))
          /\ inflight' = inflight \ {r}
    /\ UNCHANGED <<now, ticks, handlerVars, schedulerVars>>

StaleTick ==
    /\ \E d \in {60, StaleMinutes} : Tick(d, MaxStaleTicks)
    /\ UNCHANGED <<metricsVars, inflight, handlerVars, schedulerVars>>

\* cleanupTicker fires.
StaleSweep ==
    /\ Becomes(cleanupStaleKeys(Manager, now))
    /\ UNCHANGED <<now, ticks, inflight, handlerVars, schedulerVars>>

NextStale ==
    \/ StaleStart
    \/ StaleConnected
    \/ StaleFinalizeSuccess
    \/ StaleFinalizeFailure
    \/ StaleTick
    \/ StaleSweep

SpecStale == InitStale /\ [][NextStale]_vars

(***************************************************************************)
(* Specification of a restart on the same store: one manager records       *)
(* outcomes, a manager of another apiType writes to the same table, the    *)
(* clock moves, and the process is started again.                          *)
(***************************************************************************)
MaxRestartRecords == 4
MaxRestartTicks == 1

\* The keys that record outcomes, and the ones among them that fail.
RestartKeys == {"k1", "k2"}
RestartFailingKeys == {"k1"}

RECURSIVE StoredRecords(_, _)
StoredRecords(st, keys) ==
    IF keys = {} THEN 0
    ELSE LET mk == CHOOSE x \in keys : TRUE
         IN Len(st[mk]) + StoredRecords(st, keys \ {mk})

RoomToRecord ==
    StoredRecords(store, DOMAIN store) + Cardinality(inflight) < MaxRestartRecords

InitRestart == InitEngine(MinWindowSize)

RestartRecordSuccess ==
    /\ RoomToRecord
    /\ \E k \in RestartKeys : Becomes(RecordSuccess(Manager, "u1", k))
    /\ UNCHANGED <<now, ticks, inflight, handlerVars, schedulerVars>>
RestartRecordFailure ==
    /\ RoomToRecord
    /\ \E k \in RestartFailingKeys : Becomes(RecordFailure(Manager, "u1", k))
    /\ UNCHANGED <<now, ticks, inflight, handlerVars, schedulerVars>>
RestartTick ==
    /\ \E d \in {WindowLoadMinutes, LoadMinutes + 1} : Tick(d, MaxRestartTicks)
    /\ UNCHANGED <<metricsVars, inflight, handlerVars, schedulerVars>>

\* The manager of another apiType records a failure on the same identity.
OtherManagerRecords ==
    /\ RoomToRecord
    /\ store' = AddRecord(store,
                  [PersistentRecord(generateMetricsKey("u1", "k1"), now, FALSE)
                      EXCEPT !.APIType = "Messages"])
    /\ UNCHANGED <<windowSize, keyMetrics, nextRequestID, storeVars, stream, now, ticks,
                   inflight, handlerVars, schedulerVars>>

\* The process ends and NewMetricsManagerWithPersistence runs on the store.
Restart ==
    /\ keyMetrics' = loadFromStore(store, now)
    /\ nextRequestID' = 0
    /\ inflight' = {}
    /\ UNCHANGED <<windowSize, store, storeVars, stream, now, ticks,
                   handlerVars, schedulerVars>>

NextRestart ==
    \/ RestartRecordSuccess
    \/ RestartRecordFailure
    \/ RestartTick
    \/ OtherManagerRecords
    \/ Restart

SpecRestart == InitRestart /\ [][NextRestart]_vars

(***************************************************************************)
(* Properties of the pending-slot table.                                   *)
(***************************************************************************)
RowHistory(km, mk) == IF mk \in DOMAIN km THEN km[mk].requestHistory ELSE <<>>

RowPending(km, mk) == IF mk \in DOMAIN km THEN km[mk].pendingHistoryIdx ELSE EmptyMap

\* The slot that requestID reserved is still in the history of the row.
OwnSlotKept(km, mk, requestID) ==
    \E i \in DOMAIN RowHistory(km, mk) : RowHistory(km, mk)[i].owner = requestID

\* A record that the 24h eviction running at the current time drops.
Expired(rec) == rec.Timestamp <= now - RetentionMinutes

\* Every slot reserved by another request is exactly as before, pending if
\* it was pending, unless the 24h eviction dropped it as expired.
OtherSlotsUntouched(mk, requestID) ==
    \A i \in DOMAIN RowHistory(keyMetrics, mk) :
        LET rec == RowHistory(keyMetrics, mk)[i] IN
        (rec.owner # 0 /\ rec.owner # requestID) =>
            \/ /\ Expired(rec)
               /\ ~OwnSlotKept(keyMetrics, mk, requestID)
            \/ /\ \E j \in DOMAIN RowHistory(keyMetrics', mk) :
                      RowHistory(keyMetrics', mk)[j] = rec
               /\ (rec.owner \in DOMAIN RowPending(keyMetrics, mk)
                      => rec.owner \in DOMAIN RowPending(keyMetrics', mk))

\* Finalize with the given outcome resolved the slot of r or degraded cleanly.
ResolvesOrDegrades(r, outcome) ==
    LET mk   == generateMetricsKey(r.u, r.k)
        pre  == RowHistory(keyMetrics, mk)
        post == RowHistory(keyMetrics', mk)
    IN
    /\ OtherSlotsUntouched(mk, r.rid)
    /\ IF OwnSlotKept(keyMetrics, mk, r.rid)
       THEN /\ Len(post) = Len(pre)
            /\ \A i \in DOMAIN pre :
                  post[i] = IF pre[i].owner = r.rid
                            THEN [pre[i] EXCEPT !.Success = outcome]
                            ELSE pre[i]
       ELSE /\ Len(post) > 0
            /\ post[Len(post)] = RequestRecord(now, outcome, 0)
            /\ keyMetrics'[mk].RequestCount =
                  (IF mk \in DOMAIN keyMetrics THEN keyMetrics[mk].RequestCount ELSE 0) + 1

C2_PendingCoherent ==
    \A mk \in DOMAIN keyMetrics :
        LET pend == keyMetrics[mk].pendingHistoryIdx
            hist == keyMetrics[mk].requestHistory
        IN
        /\ \A rid \in DOMAIN pend :
              /\ pend[rid] >= 0
              /\ pend[rid] < Len(hist)
              /\ hist[pend[rid] + 1].owner = rid
        /\ \A a, b \in DOMAIN pend : a # b => pend[a] # pend[b]

\* Two reservations pending on a row whose history has lost slots to the
\* eviction or to a client-cancel.
C2_Witness ==
    \E mk \in DOMAIN keyMetrics :
        /\ Cardinality(DOMAIN keyMetrics[mk].pendingHistoryIdx) >= 2
        /\ \E rid \in DOMAIN keyMetrics[mk].pendingHistoryIdx :
              keyMetrics[mk].pendingHistoryIdx[rid] < rid - 1
        /\ now >= RetentionMinutes

\* The row of (u, k), a fresh one when the map has none.
Row(km, u, k) ==
    IF generateMetricsKey(u, k) \in DOMAIN km
    THEN km[generateMetricsKey(u, k)] ELSE NewKeyMetrics(u, k)

C9_CountedOnceAtFinalize ==
    [][\A u \in BaseURLs, k \in APIKeys :
          /\ Reserve(u, k, MaxRequests) =>
                Row(keyMetrics', u, k).RequestCount = Row(keyMetrics, u, k).RequestCount
          /\ \A r \in inflight :
                (/\ r.u = u
                 /\ r.k = k
                 /\ \/ FinalizeSuccess(r)
                    \/ FinalizeFailure(r)
                    \/ FinalizeClientCancel(r))
                => Row(keyMetrics', u, k).RequestCount
                      = Row(keyMetrics, u, k).RequestCount + 1
      ]_vars

(***************************************************************************)
(* Properties of the circuit breaker.                                      *)
(***************************************************************************)
\* C7: with windowSize = 10 and threshold 0.5, a failure after which the
\* window holds at least 5 failures leaves ShouldSuspendKey true and the
\* circuit stamp set: stamped with the time of this failure if the key had
\* no stamp, the old stamp kept otherwise.  A success clears the stamp.
C7_CircuitEntryAndExit ==
    [][\A r \in inflight :
          LET pre  == Row(keyMetrics, r.u, r.k)
              post == Row(keyMetrics', r.u, r.k)
          IN
          /\ (FinalizeFailure(r) /\ CountFalse(post.recentResults) >= 5) =>
                /\ windowSize = DefaultWindowSize
                /\ ShouldSuspendKey(r.u, r.k)'
                /\ post.CircuitBrokenAt =
                      IF pre.CircuitBrokenAt = NoTime THEN now
                      ELSE pre.CircuitBrokenAt
          /\ FinalizeSuccess(r) => post.CircuitBrokenAt = NoTime
      ]_vars

\* A key whose stamp was set by its fifth failure, kept by a later failure
\* at a later time, and that is suspended.
C7_Witness ==
    \E u \in BaseURLs, k \in APIKeys :
        LET mk == generateMetricsKey(u, k) IN
        /\ mk \in DOMAIN keyMetrics
        /\ windowSize = DefaultWindowSize
        /\ CountFalse(keyMetrics[mk].recentResults) >= 6
        /\ keyMetrics[mk].CircuitBrokenAt # NoTime
        /\ keyMetrics[mk].CircuitBrokenAt < keyMetrics[mk].LastFailureAt
        /\ ShouldSuspendKey(u, k)

\* The sweep recovers the row m at the current time.
SweepDue(m) ==
    /\ m.CircuitBrokenAt # NoTime
    /\ now - m.CircuitBrokenAt > RecoveryMinutes

\* C8: a run of the sweep clears the circuit stamp, the consecutive failures
\* and the sliding window of every key whose stamp is older than the
\* recovery time (15 min) and changes nothing else: keys whose stamp is
\* exactly 15 min old, younger or absent stay as they are, and no row is
\* added or removed.
C8_SweepRecovers ==
    [][SweepRecover =>
          /\ DOMAIN keyMetrics' = DOMAIN keyMetrics
          /\ \A mk \in DOMAIN keyMetrics :
                IF SweepDue(keyMetrics[mk])
                THEN /\ keyMetrics'[mk].CircuitBrokenAt = NoTime
                     /\ keyMetrics'[mk].ConsecutiveFailures = 0
                     /\ keyMetrics'[mk].recentResults = <<>>
                     /\ keyMetrics'[mk].RequestCount = keyMetrics[mk].RequestCount
                     /\ keyMetrics'[mk].FailureCount = keyMetrics[mk].FailureCount
                     /\ keyMetrics'[mk].requestHistory = keyMetrics[mk].requestHistory
                ELSE keyMetrics'[mk] = keyMetrics[mk]
      ]_vars

\* After a sweep: one key recovered (failures counted, no stamp, empty
\* window) next to a key that is still circuit-broken.
C8_Witness ==
    \E a, b \in DOMAIN keyMetrics :
        /\ keyMetrics[a].FailureCount >= 3
        /\ keyMetrics[a].SuccessCount = 0
        /\ keyMetrics[a].CircuitBrokenAt = NoTime
        /\ keyMetrics[a].recentResults = <<>>
        /\ keyMetrics[b].CircuitBrokenAt # NoTime
        /\ now - keyMetrics[b].CircuitBrokenAt <= RecoveryMinutes

(***************************************************************************)
(* Properties of the chat handler.                                         *)
(***************************************************************************)
\* Every pending slot of every row, as <<metricsKey, requestID>>.
AllPending ==
    {p \in MetricsKeys \X (0..(nextRequestID + 1)) :
        /\ p[1] \in DOMAIN keyMetrics
        /\ p[2] \in DOMAIN keyMetrics[p[1]].pendingHistoryIdx}

TotalRequestCount == SumRequestCount(keyMetrics, DOMAIN keyMetrics)

\* C3: every requestID the executor reserves is finalized exactly once on
\* every path out of the attempt.  While an attempt is in flight its
\* requestID is the only pending slot and every earlier reservation has been
\* counted once; at every other position of the handler no slot is pending,
\* so that no later Finalize can resolve a consumed slot, and the requests
\* counted are exactly the requestIDs issued.
C3_ReservedFinalizedOnce ==
    IF pc \in {"sent", "handling"}
    THEN /\ ex.requestID = nextRequestID
         /\ AllPending = {<<generateMetricsKey(currentBaseURL, ex.apiKey), ex.requestID>>}
         /\ TotalRequestCount = nextRequestID - 1
    ELSE /\ AllPending = {}
         /\ TotalRequestCount = nextRequestID

\* A request that reserved twice: one attempt ended as failover, a later one
\* as success, and both reservations are consumed.
C3_Witness ==
    /\ pc = "idle"
    /\ lastObserved # NoResponse
    /\ clientResponse = Completion
    /\ nextRequestID >= 2
    /\ AllPending = {}

\* C5: a client cancel detected while the request is being sent or while the
\* response is read or streamed ends the attempt as a client cancel: the key
\* does not enter the Failed-Key cache, the sliding window and the circuit
\* stamp are untouched, RequestCount grows by one, SuccessCount and
\* ConsecutiveFailures are unchanged and no persistent record is written.
C5_CancelFinalizedAsCancel ==
    [][(ctxDone /\ pc \in {"sent", "handling"} /\ pc' # pc) =>
          LET pre  == Row(keyMetrics, currentBaseURL, ex.apiKey)
              post == Row(keyMetrics', currentBaseURL, ex.apiKey)
          IN
          /\ failedKeysCache' = failedKeysCache
          /\ store' = store
          /\ post.recentResults = pre.recentResults
          /\ post.CircuitBrokenAt = pre.CircuitBrokenAt
          /\ post.RequestCount = pre.RequestCount + 1
          /\ post.SuccessCount = pre.SuccessCount
          /\ post.ConsecutiveFailures = pre.ConsecutiveFailures
      ]_vars

\* C6: the trace affinity of the user is set, to the channel that served the
\* request, only when the request ends in a successful finalize; a request
\* that ends in a client cancel, a terminal error, a response-handling error
\* or exhaustion leaves the affinity as it was.
C6_AffinityOnlyOnSuccess ==
    [][(pc # "idle" /\ pc' = "idle") =>
          IF ~ctxDone /\ clientResponse' \in {Completion, EventStream}
          THEN traceAffinity' = SetTraceAffinity(traceAffinity, userID, ex.channelIndex)
          ELSE traceAffinity' = traceAffinity
      ]_vars

\* C10: when all channels are exhausted the client receives the status and
\* body of the last failover-classified upstream response observed during
\* the request, and the generic 503 only if none was observed.
C10_LastFailoverResponseReturned ==
    [][MultiChannelExhausted =>
          clientResponse' = IF lastObserved # NoResponse
                            THEN lastObserved ELSE ServiceUnavailable
      ]_vars

\* C11: failover is attempted only while nothing has been written to the
\* client.  While the handler is still selecting a channel, trying a key,
\* sending or reading, no byte of any response has been forwarded; every
\* write ends the request.
C11_NoFailoverAfterWrite ==
    pc # "idle" => clientResponse = NoResponse

\* A request that failed over from one key and then answered the client
\* itself with 500 after reading the next response failed.
C11_Witness ==
    /\ pc = "idle"
    /\ clientResponse = ServerError
    /\ ex.sent
    /\ ex.failedKeys # {}
    /\ ~ctxDone

\* A step of the executor at an attempt whose request cannot be built.
BuildFailureStep ==
    /\ AttemptProceeds
    /\ BuildFails(currentBaseURL)
    /\ ctxDone' = ctxDone

\* C12: when building the upstream request fails the executor returns at
\* once with handled = false: no further key or base URL of the channel is
\* tried, nothing is reserved and no count, sliding window or circuit stamp
\* of any key changes.
C12_BuildFailureReturns ==
    [][BuildFailureStep =>
          /\ pc' = "select"
          /\ ex.channelIndex \in mc'.failedChannels
          /\ keyMetrics' = keyMetrics
          /\ nextRequestID' = nextRequestID
          /\ store' = store
          /\ failedKeysCache' = failedKeysCache
      ]_vars

\* C13: the executor is in force-probe mode exactly when every key of the
\* channel is circuit-broken at the first sorted URL.  In that mode no key is
\* skipped for its circuit state, so the executor never reports exhaustion
\* without having sent a request, and the key sent is still the one the
\* Failed-Key cache prefers: a key in cooldown only if no other key is left.
C13_ForceProbe ==
    [][/\ (pc = "select" /\ pc' = "attempt") =>
            (ex'.forceProbeMode <=>
                AreAllKeysSuspended(Upstream(ex'.channelIndex).BaseURLs[1],
                                    Upstream(ex'.channelIndex).APIKeys))
       /\ (pc = "attempt" /\ ex.forceProbeMode /\ AttemptReady /\ ctxDone' = ctxDone) =>
            pc' \in {"sent", "select"}
       /\ (pc = "attempt" /\ ex.forceProbeMode /\ pc' = "sent") =>
            /\ ex'.apiKey \in Range(Upstream(ex.channelIndex).APIKeys)
            /\ Len(Upstream(ex.channelIndex).APIKeys) > 1 =>
                  /\ ex'.apiKey \notin ex.failedKeys
                  /\ isKeyFailed(ex'.apiKey, apiType) =>
                        \A k \in Range(Upstream(ex.channelIndex).APIKeys) \ ex.failedKeys :
                            isKeyFailed(k, apiType)
       /\ (pc = "attempt" /\ ex.forceProbeMode /\ pc' = "select"
                /\ ex.urlIdx > Len(Upstream(ex.channelIndex).BaseURLs)) =>
            ex.sent
      ]_vars

\* A request is on its way with a key whose circuit is open.
C13_Witness ==
    /\ pc = "sent"
    /\ ex.forceProbeMode
    /\ ShouldSuspendKey(currentBaseURL, ex.apiKey)

\* C14: the keys queued for deprioritization reach the deprioritize callback
\* only if the request ends in success: a request that ends in a client
\* cancel, an empty or invalid response, another response-handling error or
\* exhaustion has deprioritized no key.
C14_DeprioritizeOnlyOnSuccess ==
    [][(pc # "idle" /\ pc' = "idle" /\ ex'.deprioritized # {}) =>
          /\ pc = "handling"
          /\ Row(keyMetrics', currentBaseURL, ex.apiKey).SuccessCount
                = Row(keyMetrics, currentBaseURL, ex.apiKey).SuccessCount + 1
      ]_vars

\* The state of channel i of the configuration, for the call whose result
\* is in selection.
Failed(i) == i \in selection.failedChannels

HasKeys(i) == Len(Upstream(i).APIKeys) > 0

DeadlineAhead(i) ==
    /\ Upstream(i).PromotionUntil # NoTime
    /\ now < Upstream(i).PromotionUntil

DeadlinePassed(i) ==
    /\ Upstream(i).PromotionUntil # NoTime
    /\ now >= Upstream(i).PromotionUntil

Healthy(i) ==
    IsChannelHealthyWithKeys(Upstream(i).BaseURLs[1], Upstream(i).APIKeys)

\* Channel i passes every test of the priority loop.
Eligible(i) ==
    /\ ~Failed(i)
    /\ Upstream(i).Status = "active"
    /\ HasKeys(i)
    /\ Healthy(i)

\* C15: when some channel is active, has a promotion deadline in the future,
\* has a key and is not in failedChannels, SelectChannel returns such a
\* channel with reason promotion_priority, whatever its failure history,
\* the health of the other channels and the trace affinity.
C15_PromotedChannelSelected ==
    LET P == {i \in ChannelIndexes :
                 /\ Upstream(i).Status = "active"
                 /\ DeadlineAhead(i)
                 /\ HasKeys(i)
                 /\ ~Failed(i)}
    IN (selection # NoSelection /\ P # {}) =>
          /\ selection.ChannelIndex \in P
          /\ selection.Reason = "promotion_priority"

\* C16: SelectChannel never returns a channel of failedChannels, under any
\* reason.
C16_NeverAFailedChannel ==
    selection.ChannelIndex # NoChannel => ~Failed(selection.ChannelIndex)

\* A promoted channel that failed in this request was passed over and
\* another channel was returned.
C16_Witness ==
    /\ selection.ChannelIndex # NoChannel
    /\ \E i \in selection.failedChannels :
          /\ Upstream(i).Status = "active"
          /\ DeadlineAhead(i)
          /\ HasKeys(i)

\* C17: promotion is time-bounded.  While the promotion deadline of an
\* active channel with keys is in the future, every request that has not
\* failed on it picks it with reason promotion_priority.  Once the deadline
\* has passed the channel is returned with that reason no more, and if it is
\* unhealthy it is returned only as the fallback, when no healthy channel is
\* left to return to.
C17_PromotionTimeBounded ==
    selection # NoSelection =>
        /\ \A i \in ChannelIndexes :
              (Upstream(i).Status = "active" /\ HasKeys(i) /\ DeadlineAhead(i)
                   /\ ~Failed(i)) =>
                  selection = [selection EXCEPT !.ChannelIndex = i,
                                                !.Reason = "promotion_priority"]
        /\ selection.Reason = "promotion_priority" =>
              DeadlineAhead(selection.ChannelIndex)
        /\ (/\ selection.ChannelIndex # NoChannel
            /\ DeadlinePassed(selection.ChannelIndex)
            /\ ~Healthy(selection.ChannelIndex)) =>
              /\ selection.Reason = "fallback"
              /\ \A j \in ChannelIndexes : ~Eligible(j)

\* C18: a channel is returned with reason trace_affinity only if the user
\* id is not empty and apiType:userID maps to that channel, which is in the
\* configuration and is the channel the affinity was recorded for, is
\* active, is not in failedChannels, has keys and passes the health check.
C18_AffinityConditions ==
    selection.Reason = "trace_affinity" =>
        /\ selection.userID # ""
        /\ compositeKey(selection.userID) \in DOMAIN traceAffinity
        /\ traceAffinity[compositeKey(selection.userID)] = selection.ChannelIndex
        /\ selection.ChannelIndex \in ChannelIndexes
        /\ Upstream(selection.ChannelIndex).Name = affinityFor[compositeKey(selection.userID)]
        /\ Eligible(selection.ChannelIndex)

\* C19: when neither promotion nor affinity returns a channel and some
\* channel is not failed, active, keyed and healthy, the result has reason
\* priority_order; a channel returned with that reason is such a channel and
\* no such channel has a smaller priority.
C19_PriorityOrder ==
    selection # NoSelection =>
        /\ (/\ selection.Reason \notin {"promotion_priority", "trace_affinity"}
            /\ \E j \in ChannelIndexes : Eligible(j)) =>
              selection.Reason = "priority_order"
        /\ selection.Reason = "priority_order" =>
              /\ Eligible(selection.ChannelIndex)
              /\ \A j \in ChannelIndexes :
                    Eligible(j) =>
                        ChannelPriority(selection.ChannelIndex) <= ChannelPriority(j)

\* An unhealthy channel without promotion and a keyless channel, both of
\* smaller priority, were passed over.
C19_Witness ==
    /\ selection.Reason = "priority_order"
    /\ \E j \in ChannelIndexes :
          /\ ChannelPriority(j) < ChannelPriority(selection.ChannelIndex)
          /\ Upstream(j).Status = "active"
          /\ ~Failed(j)
          /\ HasKeys(j)
          /\ ~DeadlineAhead(j)
          /\ ~Healthy(j)
    /\ \E j \in ChannelIndexes :
          /\ ChannelPriority(j) < ChannelPriority(selection.ChannelIndex)
          /\ ~HasKeys(j)

\* C20: SelectChannel never returns a disabled channel, under any reason.
C20_NeverADisabledChannel ==
    selection.ChannelIndex # NoChannel =>
        Upstream(selection.ChannelIndex).Status # "disabled"

\* A disabled channel that holds a running promotion, keys and the user's
\* affinity was passed over.
C20_Witness ==
    /\ selection.ChannelIndex # NoChannel
    /\ selection.userID # ""
    /\ \E i \in ChannelIndexes :
          /\ Upstream(i).Status = "disabled"
          /\ DeadlineAhead(i)
          /\ HasKeys(i)
          /\ ~Failed(i)
          /\ compositeKey(selection.userID) \in DOMAIN traceAffinity
          /\ traceAffinity[compositeKey(selection.userID)] = i

\* The sliding windows of channel i over every base URL and key of the
\* channel: the number of samples and the number of failures among them.
ProductSamples(i) ==
    {<<u, k, n>> \in Range(Upstream(i).BaseURLs) \X Range(Upstream(i).APIKeys) \X (1 .. windowSize) :
        /\ generateMetricsKey(u, k) \in DOMAIN keyMetrics
        /\ n <= Len(keyMetrics[generateMetricsKey(u, k)].recentResults)}

ProductFailures(i) ==
    {s \in ProductSamples(i) : ~keyMetrics[generateMetricsKey(s[1], s[2])].recentResults[s[3]]}

\* Healthy over the product: too few samples, or a failure rate below the
\* threshold.
ProductHealthy(i) ==
    \/ Cardinality(ProductSamples(i)) < Max(3, windowSize \div 2)
    \/ Cardinality(ProductFailures(i)) * ThresholdDen
           < ThresholdNum * Cardinality(ProductSamples(i))

\* C21: the health SelectChannel checks is the health of the windows
\* aggregated over every base URL and key of the channel: a channel
\* returned with reason priority_order is healthy over that product, and
\* an active channel with keys that was passed over in priority order,
\* without having failed in the request, is unhealthy over it.
C21_HealthOverAllBaseURLs ==
    selection.Reason = "priority_order" =>
        /\ ProductHealthy(selection.ChannelIndex)
        /\ \A j \in ChannelIndexes :
              (/\ ChannelPriority(j) < ChannelPriority(selection.ChannelIndex)
               /\ Upstream(j).Status = "active"
               /\ HasKeys(j)
               /\ ~Failed(j)) => ~ProductHealthy(j)

\* The reservation r holds a pending slot in the row of the pair (u, k).
InRowOf(r, u, k) ==
    /\ generateMetricsKey(u, k) \in DOMAIN keyMetrics
    /\ r.rid \in DOMAIN keyMetrics[generateMetricsKey(u, k)].pendingHistoryIdx

\* C23: two (baseURL, apiKey) pairs have the same KeyMetrics row exactly
\* when the pairs are equal: a reservation in flight is found in the row
\* of another reservation's pair only if both were made on the same base
\* URL and the same key.
C23_RowIdentity ==
    \A r1 \in inflight, r2 \in inflight :
        InRowOf(r1, r2.u, r2.k) <=> (r1.u = r2.u /\ r1.k = r2.k)

\* The rows of a channel: every base URL with every active or historical key.
RowsOf(upstream) ==
    {generateMetricsKey(u, k) :
        u \in Range(upstream.BaseURLs),
        k \in Range(upstream.APIKeys) \cup Range(upstream.HistoricalAPIKeys)}

\* The rows of the channel that leaves the configuration in this step that
\* no remaining channel has.
ExclusiveRowsOfDeleted ==
    LET i == CHOOSE j \in DOMAIN chatUpstream : chatUpstream' = RemoveAt(chatUpstream, j)
    IN RowsOf(chatUpstream[i]) \ UNION {RowsOf(chatUpstream'[j]) : j \in DOMAIN chatUpstream'}

InCooldown(apiKey, type) == isKeyFailedAt(failedKeysCache, apiKey, type, now)

\* The time at which the cooldown of the key under the API type ends, 0
\* without an entry.
CooldownEnd(cache, apiKey, type) ==
    LET ck == failedKeyCacheKey(type, apiKey) IN
    IF ck \in DOMAIN cache
    THEN cache[ck].Timestamp +
           (IF cache[ck].FailureCount > MaxFailureCount
            THEN 2 * KeyRecoveryMinutes ELSE KeyRecoveryMinutes)
    ELSE 0

\* C24: marking a key failed under one API type does not affect its
\* availability under another: a step prolongs the cooldown of at most one
\* (key, API type) pair, so a key marked under "Chat" keeps the cooldown it
\* had under "Messages".
C24_APITypeIsolation ==
    [][\A k1 \in APIKeys, k2 \in APIKeys :
         \A t1 \in FailedKeyAPITypes, t2 \in FailedKeyAPITypes :
            (/\ CooldownEnd(failedKeysCache', k1, t1) > CooldownEnd(failedKeysCache, k1, t1)
             /\ CooldownEnd(failedKeysCache', k2, t2) > CooldownEnd(failedKeysCache, k2, t2))
                => (k1 = k2 /\ t1 = t2)
      ]_vars

\* k1 is in cooldown under "Chat" and was never marked under "Messages",
\* where it is available.
C24_Witness ==
    /\ InCooldown("k1", "Chat")
    /\ ~InCooldown("k1", "Messages")
    /\ failedKeyCacheKey("Messages", "k1") \notin DOMAIN failedKeysCache

\* C25: a key is in cooldown exactly while less than the recovery interval
\* has passed since its latest failure, the interval being doubled once
\* the entry's failure count exceeds the maximum; after that it is
\* available again.  A failure stamps the entry with the current time, and
\* the cleaner never removes an entry whose key is in cooldown.
C25_CooldownAndExpiry ==
    /\ [](\A k \in APIKeys, t \in FailedKeyAPITypes :
            LET ck == failedKeyCacheKey(t, k) IN
            IF ck \in DOMAIN failedKeysCache
            THEN InCooldown(k, t) <=> now < CooldownEnd(failedKeysCache, k, t)
            ELSE ~InCooldown(k, t))
    /\ [][\A ck \in DOMAIN failedKeysCache :
            IF ck \in DOMAIN failedKeysCache'
            THEN \/ failedKeysCache'[ck] = failedKeysCache[ck]
                 \/ failedKeysCache'[ck] =
                       FailedKey(now, failedKeysCache[ck].FailureCount + 1)
            ELSE now - failedKeysCache[ck].Timestamp >=
                   (IF failedKeysCache[ck].FailureCount > MaxFailureCount
                    THEN 2 * KeyRecoveryMinutes ELSE KeyRecoveryMinutes)
         ]_vars

\* A key that failed more often than the maximum is still in cooldown
\* after the base interval has passed since its latest failure.
C25_Witness ==
    \E k \in APIKeys, t \in FailedKeyAPITypes :
        LET ck == failedKeyCacheKey(t, k) IN
        /\ ck \in DOMAIN failedKeysCache
        /\ failedKeysCache[ck].FailureCount > MaxFailureCount
        /\ now - failedKeysCache[ck].Timestamp >= KeyRecoveryMinutes
        /\ InCooldown(k, t)

\* C26: after any sequence of configuration operations at most one channel
\* carries a promotion deadline.
C26_OnePromotionDeadline ==
    Cardinality({i \in ChannelIndexes : Upstream(i).PromotionUntil # NoTime}) <= 1

\* C27: after any sequence of add, update and remove operations no two
\* channels of the list have the same name.
C27_UniqueNames ==
    \A i \in ChannelIndexes, j \in ChannelIndexes :
        Upstream(i).Name = Upstream(j).Name => i = j

\* C28: every record of the deleted identities that AddRecord accepted
\* before a DeleteRecordsByMetricsKeys call is absent from the table once
\* the call has returned, and no flush brings it back.
C28_FlushBeforeDelete ==
    go.deleter = "idle" =>
        \A i \in DOMAIN sq.rows : sq.rows[i].id \notin doomed

\* C29: no flush worker works on the storage after Close has closed it.
C29_NoFlushAfterClose ==
    ~(sq.dbClosed /\ go.worker = "insert")

\* The step ends a flush whose batch insert failed.
InsertFailedStep ==
    /\ go.records # <<>>
    /\ go'.records = <<>>
    /\ sq'.rows = sq.rows

\* C30: when a batch insert has failed and its records have been returned
\* or dropped, the write buffer holds at most 10 times the batch capacity,
\* however many inserts failed before.
C30_BufferBounded ==
    [][InsertFailedStep =>
          Len(sq'.writeBuffer) <= MaxBufferedBatches * sq.batchSize]_vars

\* The goroutines that are inside a batch insert.
Inserting == {g \in {"worker", "loop", "deleter"} : go[g] = "insert"}

WrittenRecords(mk) ==
    {i \in DOMAIN store[mk] : store[mk][i].APIType = apiType}

LoadedRecords(mk) ==
    {i \in WrittenRecords(mk) : store[mk][i].Timestamp >= now - LoadMinutes}

\* The counters a row of keyMetrics must show for the records idx of its
\* identity in the store, and the window for the recent ones among them.
RebuiltFrom(km, mk, idx) ==
    LET recent == {i \in idx : store[mk][i].Timestamp > now - WindowLoadMinutes}
        row    == km[mk]
        w      == row.recentResults
    IN
    IF idx = {} THEN mk \notin DOMAIN km
    ELSE
      /\ mk \in DOMAIN km
      /\ row.RequestCount = Cardinality(idx)
      /\ row.SuccessCount = Cardinality({i \in idx : store[mk][i].Success})
      /\ row.FailureCount = Cardinality({i \in idx : ~store[mk][i].Success})
      /\ Len(w) = IF Cardinality(recent) > windowSize THEN windowSize
                  ELSE Cardinality(recent)
      /\ \E pick \in [DOMAIN w -> recent] :
            /\ \A a, b \in DOMAIN w :
                  a < b => /\ pick[a] # pick[b]
                           /\ store[mk][pick[a]].Timestamp
                                 <= store[mk][pick[b]].Timestamp
            /\ \A a \in DOMAIN w : w[a] = store[mk][pick[a]].Success
            /\ \A i \in recent : \A a \in DOMAIN w :
                  (\A b \in DOMAIN w : pick[b] # i) =>
                      store[mk][i].Timestamp <= store[mk][pick[a]].Timestamp

\* The claim as written: the sums run over every written record.
C32_RestartEqualsWritten ==
    [][Restart => \A mk \in DOMAIN store :
                      RebuiltFrom(keyMetrics', mk, WrittenRecords(mk))]_vars

\* Amended: the sums run over the written records of the last 24 hours.
C32_RestartEqualsLoaded ==
    [][Restart => \A mk \in DOMAIN store :
                      RebuiltFrom(keyMetrics', mk, LoadedRecords(mk))]_vars

C32_Witness ==
    \E mk \in DOMAIN keyMetrics :
        LET row == keyMetrics[mk] IN
        /\ row.RequestCount > windowSize
        /\ Len(row.recentResults) = windowSize
        /\ ~row.recentResults[windowSize]
        /\ row.ConsecutiveFailures = 0

(***************************************************************************)
(* C33: when streamClaudeToChat has returned, the client has been written  *)
(* exactly one data: [DONE] frame, and it is the last frame, whether the   *)
(* upstream body held [DONE] zero, one or several times.                   *)
(***************************************************************************)
DoneFrames == {i \in DOMAIN stream.written : stream.written[i] = DoneFrame}

C33_ExactlyOneDone ==
    stream.pc = "returned" =>
        /\ Cardinality(DoneFrames) = 1
        /\ stream.written[Len(stream.written)] = DoneFrame

(***************************************************************************)
(* C34: every key that ShouldSuspendKey reports as suspended carries a     *)
(* CircuitBrokenAt stamp, which is what lets the recovery sweep release a  *)
(* suspended key that receives no further traffic.                         *)
(***************************************************************************)
C34_SuspendedIsStamped ==
    \A u \in BaseURLs, k \in APIKeys :
        ShouldSuspendKey(u, k) =>
            keyMetrics[generateMetricsKey(u, k)].CircuitBrokenAt # NoTime

(***************************************************************************)
(* C35: when the row of an in-flight reservation has been deleted by       *)
(* DeleteChannelMetrics, the Finalize of that reservation neither creates  *)
(* the row again nor hands the store a record for the deleted identity.    *)
(***************************************************************************)
C35_FinalizeAfterDeleteIsInert ==
    [][\A r \in inflight :
         LET mk == generateMetricsKey(r.u, r.k) IN
         (mk \notin DOMAIN keyMetrics /\ r \notin inflight') =>
             /\ mk \notin DOMAIN keyMetrics'
             /\ store'[mk] = store[mk]]_vars

(***************************************************************************)
(* C36: no step removes a row that holds a pending reservation or a        *)
(* non-zero ActiveRequests count; a row is removed only when its last      *)
(* success or failure is more than 48 hours old and nothing is in flight   *)
(* on it.                                                                  *)
(***************************************************************************)
InFlightOn(mk) ==
    \/ DOMAIN keyMetrics[mk].pendingHistoryIdx # {}
    \/ keyMetrics[mk].ActiveRequests > 0

C36_SweepSparesInFlight ==
    [][\A mk \in DOMAIN keyMetrics :
         mk \notin DOMAIN keyMetrics' =>
             /\ ~InFlightOn(mk)
             /\ now - lastActivity(keyMetrics[mk]) > StaleMinutes]_vars

(***************************************************************************)
(* C37: for one client request the wrapper makes at most                   *)
(* GetActiveChannelCount selection attempts, never enters the executor on  *)
(* a channel it has already failed on, and failedChannels denotes channels *)
(* that failed, also when channels are deleted during the request.         *)
(***************************************************************************)
C37_EachChannelOnce ==
    [][(pc = "select" /\ pc' = "attempt") =>
          /\ mc.channelAttempt < mc.maxChannelAttempts
          /\ Upstream(ex'.channelIndex).Name \notin mc.failedNames
          /\ \A i \in mc.failedChannels \cap ChannelIndexes :
                Upstream(i).Name \in mc.failedNames]_vars

(***************************************************************************)
(* C40: when a channel has been removed, none of its keys is still         *)
(* reported as failed for the apiType of the requests that marked them.    *)
(***************************************************************************)
C40_RemovalClearsCooldown ==
    [][\A index \in ChannelIndexes :
         chatUpstream' = RemoveAt(chatUpstream, index + 1) =>
             \A i \in DOMAIN Upstream(index).APIKeys :
                 failedKeyCacheKey(apiType, Upstream(index).APIKeys[i])
                     \notin Range(failedKeysCache')]_vars

(***************************************************************************)
(* C38: in one call of the executor no request is sent twice on the same   *)
(* (base URL, key) pair, so at most (base URLs) x (keys) requests are      *)
(* sent; the key sent on is never one that failed or was skipped on the    *)
(* current base URL, and a key that fails or is skipped enters failedKeys; *)
(* every step of the call either returns (handled or exhausted) or moves   *)
(* on in the bounded order of (base URL, attempt, stage), so the call      *)
(* terminates.                                                             *)
(***************************************************************************)
InExecutor == pc \in {"attempt", "sent", "handling"}

\* Position of the call in its loops: base URL, attempt, stage of the attempt.
ExecutorProgress ==
    LET keys  == Len(Upstream(ex.channelIndex).APIKeys)
        stage == IF pc = "attempt" THEN 0 ELSE IF pc = "sent" THEN 1 ELSE 2
    IN (ex.urlIdx * (keys + 1) + ex.attempt) * 3 + stage

C38_ExecutorBounded ==
    /\ [](InExecutor =>
            /\ Cardinality(ex.sentOn) <=
                  Len(Upstream(ex.channelIndex).BaseURLs)
                      * Len(Upstream(ex.channelIndex).APIKeys)
            /\ ex.attempt <= Len(Upstream(ex.channelIndex).APIKeys)
            /\ ex.urlIdx <= Len(Upstream(ex.channelIndex).BaseURLs) + 1)
    /\ [][(pc = "attempt" /\ pc' = "sent") =>
            /\ <<currentBaseURL, ex'.apiKey>> \notin ex.sentOn
            /\ ex'.apiKey \notin ex.failedKeys]_vars
    /\ [][(InExecutor /\ pc' = "attempt" /\ ex'.attempt > ex.attempt) =>
            \E k \in ex'.failedKeys \ ex.failedKeys :
                pc # "attempt" => k = ex.apiKey]_vars
    /\ [][(InExecutor /\ ctxDone' = ctxDone) =>
            \/ pc' \in {"select", "idle"}
            \/ ExecutorProgress' > ExecutorProgress]_vars

C38_Witness ==
    /\ pc = "select"
    /\ ex.channelIndex = 0
    /\ Cardinality(ex.sentOn) =
          Len(Upstream(0).BaseURLs) * Len(Upstream(0).APIKeys)
    /\ Cardinality(ex.sentOn) > 1

(***************************************************************************)
(* C39: the counter of requests in flight of a row is never negative; on   *)
(* every path of the executor a RecordRequestStart is matched by exactly   *)
(* one RecordRequestEnd: the step that sends adds one to the row of the    *)
(* key, the step that leaves the attempt takes one off unless the counter  *)
(* is already zero, and no other step of the executor changes a counter;   *)
(* a row on which no request is in flight has the counter zero, also when  *)
(* ResetKey zeroes the counter while the request is in flight.             *)
(***************************************************************************)
\* The attempt has called RecordRequestStart and not yet RecordRequestEnd.
AttemptInFlight == pc \in {"sent", "handling"}

\* The number of requests in flight on the row mk.
InFlightCount(mk) ==
    IF AttemptInFlight /\ mk = generateMetricsKey(currentBaseURL, ex.apiKey)
    THEN 1 ELSE 0

ActiveOf(km, mk) == IF mk \in DOMAIN km THEN km[mk].ActiveRequests ELSE 0

C39_StartMatchedByOneEnd ==
    /\ [](\A mk \in DOMAIN keyMetrics :
            /\ keyMetrics[mk].ActiveRequests >= 0
            /\ keyMetrics[mk].ActiveRequests <= InFlightCount(mk))
    /\ [][(pc = "attempt" /\ pc' = "sent") =>
            \A mk \in DOMAIN keyMetrics' :
               ActiveOf(keyMetrics', mk) =
                  ActiveOf(keyMetrics, mk) + InFlightCount(mk)']_vars
    /\ [][(AttemptInFlight /\ ~AttemptInFlight') =>
            \A mk \in DOMAIN keyMetrics' :
               ActiveOf(keyMetrics', mk) =
                  Max(ActiveOf(keyMetrics, mk) - InFlightCount(mk), 0)]_vars
    /\ [][(AttemptInFlight' = AttemptInFlight /\ ex' # ex) =>
            \A mk \in DOMAIN keyMetrics' :
               ActiveOf(keyMetrics', mk) = ActiveOf(keyMetrics, mk)]_vars

\* A request that was sent on a key has ended, the row of the key exists and
\* every counter is zero.
C39_Witness ==
    /\ pc = "idle"
    /\ ex.sent
    /\ served > 0
    /\ generateMetricsKey("u1", ex.apiKey) \in DOMAIN keyMetrics
    /\ \A mk \in DOMAIN keyMetrics : keyMetrics[mk].ActiveRequests = 0

====
